---- MODULE Spec2Model ----
(***************************************************************************)
(* Model of the F9 fetch wrapper (class F9): the request pipeline #call,   *)
(* the normalizer (#buildResponse / #buildError), status listener          *)
(* dispatch, the interceptors, retry() and raw().                          *)
(*                                                                         *)
(* An action is one synchronous run of the code between two awaits.        *)
(* JavaScript values are records tagged by the field t.  Strings that the  *)
(* code inspects (paths, content types) are sequences of tokens.           *)
(* metadata.processingTime (wall clock) is left out.                       *)
(***************************************************************************)
EXTENDS Integers, Sequences, FiniteSets, TLC

\* Bound of the model: the calls issued in one behaviour.
MaxCalls == 2

VARIABLES headers, basePath, auth, credentials, onRequest, onResponse,
          statusListeners, calls, issued, localStorage, registered

vars == <<headers, basePath, auth, credentials, onRequest, onResponse,
          statusListeners, calls, issued, localStorage, registered>>

CallIds == 1..MaxCalls

(***************************************************************************)
(* JavaScript values                                                       *)
(***************************************************************************)
Undefined == [t |-> "undefined"]
Null == [t |-> "null"]
Bool(b) == [t |-> "bool", b |-> b]
Num(n) == [t |-> "num", n |-> n]
Str(s) == [t |-> "str", s |-> s]
Obj(fields) == [t |-> "obj", fields |-> fields]
Fn(id) == [t |-> "fn", id |-> id]
FormData == [t |-> "formdata"]
\* an object graph that refers to itself
Cyclic == [t |-> "cyclic"]
\* the text JSON.stringify produces for v
JsonText(v) == [t |-> "jsontext", of |-> v]
Err(msg) == [t |-> "error", message |-> msg]

\* ToBoolean: what `if (v)` and `!v` and `a || b` test
Truthy(v) ==
    CASE v.t = "undefined" -> FALSE
      [] v.t = "null" -> FALSE
      [] v.t = "bool" -> v.b
      [] v.t = "num" -> v.n # 0
      [] v.t = "str" -> v.s # ""
      [] OTHER -> TRUE

\* a value absent from an optional string field
Unset == "unset"
\* no function in an optional callback field
NoFn == "none"
\* options.auth not given
NoAuth == [type |-> Unset]

EmptyMap == [k \in {} |-> ""]

\* { ...a, ...b }
Spread(a, b) ==
    [k \in (DOMAIN a) \cup (DOMAIN b) |-> IF k \in DOMAIN b THEN b[k] ELSE a[k]]

\* delete o[key]
Delete(o, key) == [k \in (DOMAIN o) \ {key} |-> o[k]]

\* JSON.stringify: fields holding undefined or a function are dropped; a
\* cyclic structure makes it throw.
StringifyThrows(v) == v.t = "cyclic"

Stringify(v) ==
    IF v.t = "obj"
    THEN JsonText(Obj([k \in {f \in DOMAIN v.fields : v.fields[f].t \notin {"undefined", "fn"}}
                          |-> v.fields[k]]))
    ELSE JsonText(v)

\* Response.json(): parses the body text; fails on text that is not JSON
JsonParses(text) == text.t = "jsontext"

JsonParse(text) == text.of

(***************************************************************************)
(* Inputs                                                                  *)
(***************************************************************************)
\* strings the code inspects are sequences of tokens
BasePaths == {<<"http://", "base">>}

\* which of the substrings tested by #buildRequestType a content type holds
Includes(contentType, sub) ==
    sub \in (CASE contentType = "application/json" -> {"json"}
               [] contentType = "text/plain" -> {"text"}
               [] contentType = "text/json" -> {"text", "json"}
               [] contentType = "multipart/form-data" -> {"form"}
               [] contentType = "application/x-www-form-urlencoded" -> {"form"}
               [] contentType = "multipart/form-data; boundary=json" -> {"form", "json"}
               [] contentType = "text/x-form" -> {"text", "form"}
               [] OTHER -> {})

ListenerFns == {"f1"}

\* status codes as property keys of the listener table
Wildcard == "*"

KeyOf(status) ==
    CASE status = 0 -> "0"
      [] status = 200 -> "200"
      [] status = 204 -> "204"
      [] status = 404 -> "404"
      [] status = 500 -> "500"
      [] OTHER -> "other"

ListenerKeys == {Wildcard, "200", "404"}

\* what the transport can answer: a response (as the mock server's routes
\* give them) or a rejection
Responses ==
    { [status |-> 200, statusText |-> "OK", body |-> JsonText(Obj([ok |-> Bool(TRUE)]))],
      [status |-> 204, statusText |-> "handler no content", body |-> Str("")],
      [status |-> 404, statusText |-> "handler not found",
       body |-> JsonText(Obj([message |-> Str("Not found")]))],
      [status |-> 404, statusText |-> "handler not found", body |-> Str("Not found")],
      [status |-> 500, statusText |-> "Internal Server Error", body |-> JsonText(Num(0))] }

NoResponse == [status |-> 0, statusText |-> "", body |-> Undefined]

FetchErrors == {Err("fetch failed")}

ResponseHeaders == [k \in {"content-type"} |-> "application/json"]

\* Response.ok
Ok(response) == response.status >= 200 /\ response.status <= 299

(***************************************************************************)
(* Request Builder                                                         *)
(***************************************************************************)
DefaultHeaders == [k \in {"Content-Type"} |-> "application/json"]

\* the first tokens of a path that begin with the letters http
HttpPrefixed == {"http://", "https://", "httpbin.org"}

\* path.startsWith('http')
StartsWithHttp(path) == Len(path) > 0 /\ Head(path) \in HttpPrefixed

\* path.startsWith('/')
StartsWithSlash(path) == Len(path) > 0 /\ Head(path) = "/"

\* mutant: the base path is put in front of every path
buildFullPathAlwaysBase(path) ==
    IF StartsWithSlash(path) THEN basePath \o path
    ELSE basePath \o <<"/">> \o path

buildFullPath(path) ==
    IF StartsWithHttp(path) THEN path
    ELSE IF StartsWithSlash(path) THEN basePath \o path
    ELSE basePath \o <<"/">> \o path

\* mutant: { ...headers, ...this.#headers }, the client's value wins
buildHeadersDefaultsWin(hdrs) == Spread(hdrs, headers)

buildHeaders(hdrs) == Spread(headers, hdrs)

\* contentType.includes(...) throws a TypeError when the header is absent
buildRequestTypeThrows(hdrs) == "Content-Type" \notin DOMAIN hdrs

\* mutant: json is tested first
buildRequestTypeJsonFirst(contentType) ==
    IF Includes(contentType, "json") THEN "json"
    ELSE IF Includes(contentType, "text") THEN "text"
    ELSE IF Includes(contentType, "form") THEN "formData"
    ELSE "arrayBuffer"

buildRequestType(contentType) ==
    IF Includes(contentType, "text") THEN "text"
    ELSE IF Includes(contentType, "form") THEN "formData"
    ELSE IF Includes(contentType, "json") THEN "json"
    ELSE "arrayBuffer"

\* Object.assign({}, params) with headers, options, $method, $path deleted
ParamsCopy(params) ==
    LET own == [k \in {"$retryCount"} |-> Num(params.retryCount)]
        bodyField == IF params.body.t # "undefined"
                     THEN [k \in {"body"} |-> params.body] ELSE EmptyMap
        cred == IF params.credentials # Unset
                THEN [k \in {"credentials"} |-> Str(params.credentials)] ELSE EmptyMap
        onReq == IF params.onRequest # NoFn
                 THEN [k \in {"onRequest"} |-> Fn(params.onRequest)] ELSE EmptyMap
        onRes == IF params.onResponse # NoFn
                 THEN [k \in {"onResponse"} |-> Fn(params.onResponse)] ELSE EmptyMap
    IN Obj(Spread(Spread(Spread(Spread(Spread(params.payload, bodyField), cred), onReq), onRes),
                  own))

\* the value #buildBody hands to JSON.stringify, or returns as it is
BodyValue(params) ==
    IF Truthy(params.body) THEN params.body ELSE ParamsCopy(params)

buildBodyThrows(params, requestType) ==
    /\ params.body.t # "formdata"
    /\ requestType = "json"
    /\ StringifyThrows(BodyValue(params))

\* mutant: the body is serialized whatever the request type
buildBodyAlwaysJson(params, requestType) ==
    IF params.body.t = "formdata" THEN params.body
    ELSE Stringify(BodyValue(params))

buildBody(params, requestType) ==
    IF params.body.t = "formdata" THEN params.body
    ELSE IF requestType = "json" THEN Stringify(BodyValue(params))
    ELSE BodyValue(params)

\* `${method}:${url}` with every http:// and https:// removed
buildName(method, url) ==
    <<method, ":">> \o SelectSeq(url, LAMBDA tok : tok \notin {"http://", "https://"})

BodyMethods == {"post", "put", "patch", "delete"}

\* mutant: the client's credentials are assigned after the call's own
buildOptsClientCredentials(params, hdrs, body) ==
    [method |-> params.method,
     headers |-> IF body.t = "formdata" THEN Delete(hdrs, "Content-Type") ELSE hdrs,
     credentials |-> IF credentials # Unset THEN credentials ELSE params.credentials,
     mode |-> params.options.mode,
     body |-> IF params.method \in BodyMethods THEN body ELSE Undefined]

\* mutant: the body is attached whatever the method
buildOptsAlwaysBody(params, hdrs, body) ==
    [method |-> params.method,
     headers |-> IF body.t = "formdata" THEN Delete(hdrs, "Content-Type") ELSE hdrs,
     credentials |-> IF params.credentials # Unset THEN params.credentials ELSE credentials,
     mode |-> params.options.mode,
     body |-> body]

\* mutant: the Content-Type header stays when the body is a FormData
buildOptsKeepsContentType(params, hdrs, body) ==
    [method |-> params.method,
     headers |-> hdrs,
     credentials |-> IF params.credentials # Unset THEN params.credentials ELSE credentials,
     mode |-> params.options.mode,
     body |-> IF params.method \in BodyMethods THEN body ELSE Undefined]

\* the FetchOptions #call builds
buildOpts(params, hdrs, body) ==
    [method |-> params.method,
     headers |-> IF body.t = "formdata" THEN Delete(hdrs, "Content-Type") ELSE hdrs,
     credentials |-> IF params.credentials # Unset THEN params.credentials ELSE credentials,
     mode |-> params.options.mode,
     body |-> IF params.method \in BodyMethods THEN body ELSE Undefined]

(***************************************************************************)
(* Response Normalizer                                                     *)
(***************************************************************************)
Envelope(success, status, message, metadata, data) ==
    [t |-> "env", success |-> success, status |-> status, message |-> message,
     metadata |-> metadata, data |-> data, mark |-> "own"]

\* the metadata literal of #call and raw
Metadata(url, opts, method, requestName, responseType, status, message) ==
    [url |-> url, opts |-> opts, method |-> method, requestName |-> requestName,
     responseType |-> responseType, status |-> status, message |-> message,
     retryCount |-> 0]

\* response[responseType](): json() parses, text() gives the text
ReaderFails(responseType, body) ==
    CASE responseType = "json" -> ~JsonParses(body)
      [] responseType = "text" -> FALSE
      [] OTHER -> TRUE

Reader(responseType, body) ==
    IF responseType = "json" THEN JsonParse(body) ELSE body

\* !response.ok: what #buildResponse throws
ErrorData(response) ==
    LET textData == response.body
        data == IF JsonParses(response.body) THEN JsonParse(response.body) ELSE Null
        data2 == IF ~Truthy(data) /\ Truthy(textData) THEN textData ELSE data
    IN IF data2.t \in {"null", "undefined"} THEN Null ELSE data2

buildResponseThrows(response) == ~Ok(response)

\* mutant: `let data` left uninitialized, so a failed decode leaves undefined
buildResponseDataUndefined(response, metadata) ==
    IF ~Ok(response)
    THEN Envelope(FALSE, response.status, response.statusText, metadata, ErrorData(response))
    ELSE Envelope(TRUE, response.status, response.statusText,
                  [headers |-> ResponseHeaders] @@ metadata,
                  IF ReaderFails(metadata.responseType, response.body) THEN Undefined
                  ELSE Reader(metadata.responseType, response.body))

buildResponse(response, metadata) ==
    IF ~Ok(response)
    THEN Envelope(FALSE, response.status, response.statusText, metadata, ErrorData(response))
    ELSE Envelope(TRUE, response.status, response.statusText,
                  [headers |-> ResponseHeaders] @@ metadata,
                  IF ReaderFails(metadata.responseType, response.body) THEN Null
                  ELSE Reader(metadata.responseType, response.body))

\* error?.$status is truthy
HasStatus(error) == error.t = "env" /\ error.status # 0

\* mutant: the message of the metadata instead of the error's own
buildErrorMetadataMessage(error, metadata) ==
    IF ~HasStatus(error)
    THEN Envelope(FALSE, 0, metadata.message, metadata, Null)
    ELSE [error EXCEPT !.metadata =
             [k \in (DOMAIN error.metadata) \cup {"status", "message"} |->
                 IF k = "status" THEN error.status
                 ELSE IF k = "message" THEN error.message
                 ELSE error.metadata[k]]]

buildError(error, metadata) ==
    IF ~HasStatus(error)
    THEN Envelope(FALSE, 0, IF error.t = "error" THEN error.message ELSE "undefined",
                  metadata, Null)
    ELSE [error EXCEPT !.metadata =
             [k \in (DOMAIN error.metadata) \cup {"status", "message"} |->
                 IF k = "status" THEN error.status
                 ELSE IF k = "message" THEN error.message
                 ELSE error.metadata[k]]]

(***************************************************************************)
(* State of one call: the frame of #call (or raw) and its promise          *)
(***************************************************************************)
NoParams ==
    [method |-> "get", path |-> <<>>, headers |-> EmptyMap,
     options |-> [mode |-> Unset, responseType |-> Unset], body |-> Undefined,
     payload |-> EmptyMap, credentials |-> Unset, onRequest |-> NoFn,
     onResponse |-> NoFn, retryCount |-> 0]

NoOpts ==
    [method |-> "get", headers |-> EmptyMap, credentials |-> Unset, mode |-> Unset,
     body |-> Undefined]

\* pc: "idle" not issued; "fetch" awaiting the transport; "wildTry"/"exactTry"
\* awaiting a listener called in the try block; "wildCatch"/"exactCatch"
\* awaiting a listener called in the catch block; "done" promise settled.
\* callerHeaders: the headers object of the caller as #call leaves it.
\* requestType: the const requestType of #call.
\* defaults: this.#headers as #buildHeaders read it.  by: for a retry made
\* inside a status listener, the call and the step of that listener, which
\* awaits this call.
IdleCall ==
    [kind |-> "idle", pc |-> "idle", params |-> NoParams, url |-> <<>>, opts |-> NoOpts,
     sent |-> Undefined, requestName |-> <<>>, responseType |-> "json",
     response |-> NoResponse, thrown |-> Undefined, result |-> Null,
     settled |-> "pending", value |-> Undefined, wildRet |-> Undefined,
     exactRet |-> Undefined, log |-> <<>>, defaults |-> EmptyMap, by |-> <<>>,
     callerHeaders |-> EmptyMap, requestType |-> "json"]

AwaitingListener == {"wildTry", "exactTry", "wildCatch", "exactCatch"}

\* one observable step of a call
Ev(ev, fn, arg) == [ev |-> ev, fn |-> fn, arg |-> arg]

\* the promise of the call settles
Settle(c, how, v) == [c EXCEPT !.pc = "done", !.settled = how, !.value = v]

\* what a callback does when called: returns a value or throws
Returns(v) == [how |-> "return", v |-> v]
Throws(e) == [how |-> "throw", v |-> e]

InterceptorOutcomes == {Returns(Undefined), Throws(Err("interceptor"))}

\* mutant: no finally block, the response interceptor is never called
FinallySkipsInterceptor(c, how, v, resOut) == Settle(c, how, v)

\* mutant: `if` instead of `else if`, the client's onResponse is called too
FinallyCallsBoth(c, how, v, resOut) ==
    LET c1 == IF c.params.onResponse # NoFn
              THEN [c EXCEPT !.log = Append(@, Ev("onResponse", c.params.onResponse, c.result))]
              ELSE c
        c2 == IF onResponse # NoFn
              THEN [c1 EXCEPT !.log = Append(@, Ev("onResponse", onResponse, c.result))]
              ELSE c1
    IN IF c2 = c THEN Settle(c, how, v)
       ELSE IF resOut.how = "throw" THEN Settle(c2, "rejected", resOut.v)
       ELSE Settle(c2, how, v)

\* the finally block of #call: the per-call onResponse, else the client's.
\* An exception of the interceptor replaces the pending return or throw.
Finally(c, how, v, resOut) ==
    LET fn == IF c.params.onResponse # NoFn THEN c.params.onResponse
              ELSE IF onResponse # NoFn THEN onResponse
              ELSE NoFn
    IN IF fn = NoFn THEN Settle(c, how, v)
       ELSE LET c2 == [c EXCEPT !.log = Append(@, Ev("onResponse", fn, c.result))]
            IN IF resOut.how = "throw" THEN Settle(c2, "rejected", resOut.v)
               ELSE Settle(c2, how, v)

\* `return result`
ReturnResult(c, resOut) == Finally(c, "resolved", c.result, resOut)

\* the exact-status part of the dispatch; block is "Try" or "Catch"
DispatchExact(c, block, resOut) ==
    IF KeyOf(c.result.status) \in DOMAIN statusListeners
    THEN [c EXCEPT !.pc = "exact" \o block,
                   !.log = Append(@, Ev("exact", statusListeners[KeyOf(c.result.status)],
                                        c.result))]
    ELSE ReturnResult(c, resOut)

\* `if (result && params.$retryCount === 0) { ... } return result`
Dispatch(c, block, resOut) ==
    IF c.params.retryCount = 0
    THEN IF Wildcard \in DOMAIN statusListeners
         THEN [c EXCEPT !.pc = "wild" \o block,
                        !.log = Append(@, Ev("wild", statusListeners[Wildcard], c.result))]
         ELSE DispatchExact(c, block, resOut)
    ELSE ReturnResult(c, resOut)

\* mutant: the catch block forgets the wildcard listener
CatchSkipsWildcard(c, error, resOut) ==
    LET metadata == Metadata(c.url, c.opts, c.params.method, c.requestName, c.responseType,
                             c.response.status,
                             IF c.response.statusText # "" THEN c.response.statusText
                             ELSE "Failed to fetch")
        c2 == [c EXCEPT !.result = buildError(error, metadata),
                        !.log = Append(@, Ev("normalize", NoFn, error))]
    IN IF c2.params.retryCount = 0 THEN DispatchExact(c2, "Catch", resOut)
       ELSE ReturnResult(c2, resOut)

\* the catch block of #call
Catch(c, error, resOut) ==
    LET metadata == Metadata(c.url, c.opts, c.params.method, c.requestName, c.responseType,
                             c.response.status,
                             IF c.response.statusText # "" THEN c.response.statusText
                             ELSE "Failed to fetch")
        c2 == [c EXCEPT !.result = buildError(error, metadata),
                        !.log = Append(@, Ev("normalize", NoFn, error))]
    IN Dispatch(c2, "Catch", resOut)

\* mutant: url, opts, method and response type kept on the client, where the
\* call made last overwrites them
TryLastIssued(c, response, resOut) ==
    LET last == calls[issued]
        metadata == Metadata(last.url, last.opts, last.params.method, last.requestName,
                             last.responseType, response.status, response.statusText)
        c2 == [c EXCEPT !.response = response]
    IN IF buildResponseThrows(response)
       THEN Catch(c2, buildResponse(response, metadata), resOut)
       ELSE Dispatch([c2 EXCEPT !.result = buildResponse(response, metadata),
                                !.log = Append(@, Ev("normalize", NoFn, Undefined))],
                     "Try", resOut)

\* mutant: the options in the metadata hold the client's headers and
\* credentials as they are when the response arrives
TryReadsClient(c, response, resOut) ==
    LET opts == [c.opts EXCEPT !.headers = Spread(headers, c.params.headers),
                               !.credentials = IF c.params.credentials # Unset
                                               THEN c.params.credentials ELSE credentials]
        metadata == Metadata(c.url, opts, c.params.method, c.requestName, c.responseType,
                             response.status, response.statusText)
        c2 == [c EXCEPT !.response = response]
    IN IF buildResponseThrows(response)
       THEN Catch(c2, buildResponse(response, metadata), resOut)
       ELSE Dispatch([c2 EXCEPT !.result = buildResponse(response, metadata),
                                !.log = Append(@, Ev("normalize", NoFn, Undefined))],
                     "Try", resOut)

\* the try block after `await fetch(url, opts)` gave a response
Try(c, response, resOut) ==
    LET metadata == Metadata(c.url, c.opts, c.params.method, c.requestName, c.responseType,
                             response.status, response.statusText)
        c2 == [c EXCEPT !.response = response]
    IN IF buildResponseThrows(response)
       THEN Catch(c2, buildResponse(response, metadata), resOut)
       ELSE Dispatch([c2 EXCEPT !.result = buildResponse(response, metadata),
                                !.log = Append(@, Ev("normalize", NoFn, Undefined))],
                     "Try", resOut)

\* mutant: without the option the reader follows the request's content type
responseTypeOfContentType(params) ==
    IF params.options.responseType # Unset THEN params.options.responseType
    ELSE IF Includes(buildHeaders(params.headers)["Content-Type"], "text") THEN "text"
    ELSE "json"

\* const responseType = params.options?.responseType || 'json'
responseTypeOf(params) ==
    IF params.options.responseType # Unset THEN params.options.responseType ELSE "json"

\* mutant: the response interceptor is the one the client has when the call is
\* issued
callKeepsInterceptor(given, reqOut, resOut) ==
    LET params == [given EXCEPT !.onResponse = IF @ # NoFn THEN @ ELSE onResponse]
        hdrs == buildHeaders(params.headers)
        requestType == buildRequestType(hdrs["Content-Type"])
        responseType == responseTypeOf(params)
        body == buildBody(params, requestType)
        opts == buildOpts(params, hdrs, body)
        url == buildFullPath(params.path)
        c == [IdleCall EXCEPT !.kind = "call", !.params = params, !.url = url,
                              !.opts = opts, !.requestName = buildName(params.method, url),
                              !.responseType = responseType, !.defaults = headers,
                              !.callerHeaders = params.headers,
                              !.requestType = requestType]
        fn == IF params.onRequest # NoFn THEN params.onRequest
              ELSE IF onRequest # NoFn THEN onRequest
              ELSE NoFn
        c2 == IF fn = NoFn THEN c
              ELSE [c EXCEPT !.log = Append(@, Ev("onRequest", fn, Undefined))]
    IN IF buildRequestTypeThrows(hdrs) \/ buildBodyThrows(params, requestType)
       THEN Settle([IdleCall EXCEPT !.kind = "call", !.params = params,
                                    !.callerHeaders = params.headers],
                   "rejected", Err("TypeError"))
       ELSE IF fn # NoFn /\ reqOut.how = "throw"
       THEN Catch(c2, reqOut.v, resOut)
       ELSE [c2 EXCEPT !.pc = "fetch", !.sent = [url |-> url, opts |-> opts],
                       !.log = Append(@, Ev("fetch", NoFn, Undefined))]

\* #call up to its first await
call(params, reqOut, resOut) ==
    LET hdrs == buildHeaders(params.headers)
        requestType == buildRequestType(hdrs["Content-Type"])
        responseType == responseTypeOf(params)
        body == buildBody(params, requestType)
        opts == buildOpts(params, hdrs, body)
        url == buildFullPath(params.path)
        c == [IdleCall EXCEPT !.kind = "call", !.params = params, !.url = url,
                              !.opts = opts, !.requestName = buildName(params.method, url),
                              !.responseType = responseType, !.defaults = headers,
                              !.callerHeaders = params.headers,
                              !.requestType = requestType]
        fn == IF params.onRequest # NoFn THEN params.onRequest
              ELSE IF onRequest # NoFn THEN onRequest
              ELSE NoFn
        c2 == IF fn = NoFn THEN c
              ELSE [c EXCEPT !.log = Append(@, Ev("onRequest", fn, Undefined))]
    IN IF buildRequestTypeThrows(hdrs) \/ buildBodyThrows(params, requestType)
       THEN Settle([IdleCall EXCEPT !.kind = "call", !.params = params,
                                    !.callerHeaders = params.headers],
                   "rejected", Err("TypeError"))
       ELSE IF fn # NoFn /\ reqOut.how = "throw"
       THEN Catch(c2, reqOut.v, resOut)
       ELSE [c2 EXCEPT !.pc = "fetch", !.sent = [url |-> url, opts |-> opts],
                       !.log = Append(@, Ev("fetch", NoFn, Undefined))]

(***************************************************************************)
(* Construction                                                            *)
(***************************************************************************)
\* the value of an authorization header: scheme + text, the text plain or
\* base64-encoded
HeaderValue(scheme, enc, text) == [scheme |-> scheme, enc |-> enc, text |-> text]

\* Buffer.from(text).toString('base64')
Base64(text) == [enc |-> "base64", text |-> text]

\* the credential store when the client is built: a key with a value, a key
\* with an empty one (any other key is missing)
LocalStorage == [k \in {"k1", "k2"} |-> IF k = "k1" THEN "stored" ELSE ""]

\* localStorage.getItem(key) || ''
getItem(key) == IF key \in DOMAIN localStorage THEN localStorage[key] ELSE ""

\* an auth descriptor; a field that is absent holds ""
Auth(type, header, token, key, login, password) ==
    [type |-> type, header |-> header, token |-> token, key |-> key, login |-> login,
     password |-> password]

\* mutant: a Bearer header is written even when no token was found
buildAuthEmptyToken(a) ==
    LET header == IF a.header # "" THEN a.header ELSE "Authorization"
    IN IF a.type = Unset THEN DefaultHeaders
       ELSE IF a.type = "Bearer"
       THEN LET token == IF a.token # "" THEN a.token
                         ELSE IF a.key # "" THEN getItem(a.key)
                         ELSE ""
            IN Spread(DefaultHeaders,
                      [k \in {header} |-> HeaderValue("Bearer ", "plain", <<token>>)])
       ELSE IF a.type = "Basic"
       THEN IF a.login = "" \/ a.password = "" THEN DefaultHeaders
            ELSE LET token == Base64(<<a.login, ":", a.password>>)
                 IN Spread(DefaultHeaders,
                           [k \in {header} |-> HeaderValue("Basic ", token.enc, token.text)])
       ELSE DefaultHeaders

\* mutant: Basic auth asks for the login only
buildAuthLoginOnly(a) ==
    LET header == IF a.header # "" THEN a.header ELSE "Authorization"
    IN IF a.type = Unset THEN DefaultHeaders
       ELSE IF a.type = "Bearer"
       THEN LET token == IF a.token # "" THEN a.token
                         ELSE IF a.key # "" THEN getItem(a.key)
                         ELSE ""
            IN IF token = "" THEN DefaultHeaders
               ELSE Spread(DefaultHeaders,
                           [k \in {header} |-> HeaderValue("Bearer ", "plain", <<token>>)])
       ELSE IF a.type = "Basic"
       THEN IF a.login = "" THEN DefaultHeaders
            ELSE LET token == Base64(<<a.login, ":", a.password>>)
                 IN Spread(DefaultHeaders,
                           [k \in {header} |-> HeaderValue("Basic ", token.enc, token.text)])
       ELSE DefaultHeaders

\* #buildAuth: this.#headers after it ran on the default headers
buildAuth(a) ==
    LET header == IF a.header # "" THEN a.header ELSE "Authorization"
    IN IF a.type = Unset THEN DefaultHeaders
       ELSE IF a.type = "Bearer"
       THEN LET token == IF a.token # "" THEN a.token
                         ELSE IF a.key # "" THEN getItem(a.key)
                         ELSE ""
            IN IF token = "" THEN DefaultHeaders
               ELSE Spread(DefaultHeaders,
                           [k \in {header} |-> HeaderValue("Bearer ", "plain", <<token>>)])
       ELSE IF a.type = "Basic"
       THEN IF a.login = "" \/ a.password = "" THEN DefaultHeaders
            ELSE LET token == Base64(<<a.login, ":", a.password>>)
                 IN Spread(DefaultHeaders,
                           [k \in {header} |-> HeaderValue("Basic ", token.enc, token.text)])
       ELSE DefaultHeaders

GlobalFns == {"global"}

Init ==
    /\ localStorage = LocalStorage
    /\ registered = EmptyMap
    /\ headers = DefaultHeaders
    /\ basePath \in BasePaths
    /\ auth = NoAuth
    /\ credentials = Unset
    /\ onRequest \in {NoFn} \cup GlobalFns
    /\ onResponse \in {NoFn} \cup GlobalFns
    /\ statusListeners = EmptyMap
    /\ calls = [c \in CallIds |-> IdleCall]
    /\ issued = 0

client == <<headers, basePath, auth, credentials, onRequest, onResponse, statusListeners>>

(***************************************************************************)
(* get / post / put / patch / delete                                       *)
(***************************************************************************)
\* the calls of the pipeline specification: a plain call, and a call whose
\* body JSON.stringify rejects
RequestParams ==
    { [NoParams EXCEPT !.method = "get", !.path = <<"/", "a">>],
      [NoParams EXCEPT !.method = "post", !.path = <<"/", "a">>, !.body = Cyclic] }

\* mutant: #buildHeaders merges into this.#headers itself and returns it, so
\* the per-call headers and the FormData delete land in the client's defaults
headersAfterCallShared(params) ==
    IF params.body.t = "formdata"
    THEN Delete(Spread(headers, params.headers), "Content-Type")
    ELSE Spread(headers, params.headers)

\* this.#headers after #call ran: #buildHeaders spreads into a new object,
\* and `delete headers['Content-Type']` acts on that copy
\* mutant: every call derives the auth header again from the store
headersAfterCallRebuilt(params) == Spread(headers, buildAuth(auth))

headersAfterCall(params) == headers

\* the fields of the client that #call only reads
readByCall == <<basePath, auth, credentials, onRequest, onResponse, statusListeners>>

Request(params, reqOut, resOut) ==
    /\ issued < MaxCalls
    /\ issued' = issued + 1
    /\ calls' = [calls EXCEPT ![issued + 1] = call(params, reqOut, resOut)]
    /\ headers' = headersAfterCall(params)
    /\ UNCHANGED <<readByCall, localStorage, registered>>

\* #buildArgs: a FormData given in place of the params becomes their body
buildArgs(args) ==
    IF "t" \in DOMAIN args THEN [NoParams EXCEPT !.body = args] ELSE args

\* get / post / put / patch / delete
Verb(method, path, args, reqOut, resOut) ==
    Request([buildArgs(args) EXCEPT !.method = method, !.path = path, !.retryCount = 0],
            reqOut, resOut)

(***************************************************************************)
(* retry(resp)                                                             *)
(***************************************************************************)
\* envelopes the application holds: resolved values and listener arguments
Held ==
    {calls[c].value : c \in {d \in CallIds : calls[d].settled = "resolved"}}
    \cup {calls[c].log[Len(calls[c].log)].arg :
            c \in {d \in CallIds : calls[d].pc \in AwaitingListener}}

\* mutant: the headers recorded in the envelope are not passed on
retryParamsNoHeaders(resp) ==
    [NoParams EXCEPT !.options = [mode |-> resp.metadata.opts.mode, responseType |-> Unset],
                     !.method = resp.metadata.method,
                     !.path = resp.metadata.url,
                     !.body = resp.metadata.opts.body,
                     !.retryCount = resp.metadata.retryCount + 1]

\* mutant: the retry counter is copied, not incremented
retryParamsSameCount(resp) ==
    [NoParams EXCEPT !.headers = resp.metadata.opts.headers,
                     !.options = [mode |-> resp.metadata.opts.mode, responseType |-> Unset],
                     !.method = resp.metadata.method,
                     !.path = resp.metadata.url,
                     !.body = resp.metadata.opts.body,
                     !.retryCount = resp.metadata.retryCount]

retryParams(resp) ==
    [NoParams EXCEPT !.headers = resp.metadata.opts.headers,
                     !.options = [mode |-> resp.metadata.opts.mode, responseType |-> Unset],
                     !.method = resp.metadata.method,
                     !.path = resp.metadata.url,
                     !.body = resp.metadata.opts.body,
                     !.retryCount = resp.metadata.retryCount + 1]

Retry(resp, reqOut, resOut) ==
    /\ issued < MaxCalls
    /\ issued' = issued + 1
    /\ calls' = [calls EXCEPT ![issued + 1] =
          [call(retryParams(resp), reqOut, resOut) EXCEPT !.kind = "retry"]]
    /\ headers' = headersAfterCall(retryParams(resp))
    /\ UNCHANGED <<readByCall, localStorage, registered>>

(***************************************************************************)
(* raw(url, opts)                                                          *)
(***************************************************************************)
RawUrls == {<<"http://", "h", "/", "b">>}

\* opts as given by the caller; given = FALSE is a call without opts
RawOpts ==
    { [given |-> FALSE, opts |-> NoOpts],
      [given |-> TRUE, opts |-> [NoOpts EXCEPT !.method = "post", !.headers = DefaultHeaders,
                                               !.body = Str("payload")]],
      [given |-> TRUE, opts |-> [NoOpts EXCEPT !.headers = [k \in {"x-token"} |-> "v"]]] }

raw(url, o) ==
    LET fetchOptions == IF o.given THEN o.opts
                        ELSE [NoOpts EXCEPT !.method = "get", !.headers = DefaultHeaders]
        method == IF o.given THEN o.opts.method ELSE "get"
        c == [IdleCall EXCEPT !.kind = "raw", !.url = url, !.opts = fetchOptions,
                              !.params.method = method,
                              !.requestName = buildName(method, url)]
    IN IF buildRequestTypeThrows(fetchOptions.headers)
       THEN Settle(c, "rejected", Err("TypeError"))
       ELSE [c EXCEPT !.pc = "fetch", !.sent = [url |-> url, opts |-> o],
                      !.log = Append(@, Ev("fetch", NoFn, Undefined))]

Raw(url, o) ==
    /\ issued < MaxCalls
    /\ issued' = issued + 1
    /\ calls' = [calls EXCEPT ![issued + 1] = raw(url, o)]
    /\ UNCHANGED <<client, localStorage, registered>>

\* raw after `await fetch(url, opts)`
rawSettle(c, out) ==
    LET isResponse == "status" \in DOMAIN out
        response == IF isResponse THEN out ELSE NoResponse
        metadata == Metadata(c.url, c.opts, c.params.method, c.requestName, "json",
                             response.status, response.statusText)
        errMetadata == [metadata EXCEPT !.message =
                           IF response.statusText # "" THEN response.statusText
                           ELSE "Fetch failed"]
        c2 == [c EXCEPT !.response = response,
                        !.thrown = IF isResponse THEN Undefined ELSE out,
                        !.log = Append(@, Ev("normalize", NoFn, Undefined))]
        result == IF ~isResponse THEN buildError(out, errMetadata)
                  ELSE IF buildResponseThrows(response)
                  THEN buildError(buildResponse(response, metadata), errMetadata)
                  ELSE buildResponse(response, metadata)
    IN Settle([c2 EXCEPT !.result = result], "resolved", result)

(***************************************************************************)
(* The transport settles the promise of fetch                              *)
(***************************************************************************)
FetchSettle(c, out, resOut) ==
    /\ calls[c].pc = "fetch"
    /\ calls' = [calls EXCEPT ![c] =
          IF calls[c].kind = "raw" THEN rawSettle(calls[c], out)
          ELSE IF "status" \in DOMAIN out THEN Try(calls[c], out, resOut)
          ELSE Catch([calls[c] EXCEPT !.thrown = out], out, resOut)]
    /\ UNCHANGED <<client, issued, localStorage, registered>>

(***************************************************************************)
(* A status listener returns or throws                                     *)
(***************************************************************************)
\* the envelope the awaited listener was called with
ListenerArg(c) == c.log[Len(c.log)].arg

\* a listener may return nothing, a falsy value or a changed copy of the
\* envelope, or throw an error or the envelope itself
ListenerOutcomes(c) ==
    IF c.pc \in {"wildTry", "wildCatch"}
    THEN { Returns(Undefined), Returns([ListenerArg(c) EXCEPT !.mark = "subst"]),
           Throws(Err("listener")) }
    ELSE { Returns(Undefined), Returns(Bool(FALSE)),
           Returns([ListenerArg(c) EXCEPT !.mark = "subst"]), Throws(ListenerArg(c)) }

\* mutant: a truthy value of the wildcard listener is returned
wildReturnSubstitutes(c, v, block, resOut) ==
    IF Truthy(v) THEN Finally([c EXCEPT !.wildRet = v], "resolved", v, resOut)
    ELSE DispatchExact([c EXCEPT !.wildRet = v], block, resOut)

\* `await this.#statusListeners['*'](result)`: the value is dropped
wildReturn(c, v, block, resOut) ==
    DispatchExact([c EXCEPT !.wildRet = v], block, resOut)

\* mutant: every value but null and undefined replaces the envelope
statusReturnNonNull(c, v, resOut) ==
    IF v.t \notin {"undefined", "null"}
    THEN Finally([c EXCEPT !.exactRet = v], "resolved", v, resOut)
    ELSE ReturnResult([c EXCEPT !.exactRet = v], resOut)

\* `if (onStatusResponse) { return onStatusResponse }` ... `return result`
statusReturn(c, v, resOut) ==
    IF Truthy(v) THEN Finally([c EXCEPT !.exactRet = v], "resolved", v, resOut)
    ELSE ReturnResult([c EXCEPT !.exactRet = v], resOut)

\* an exception of a listener: caught in the try block, not in the catch block
listenerThrow(c, e, block, resOut) ==
    IF block = "Try" THEN Catch(c, e, resOut) ELSE Finally(c, "rejected", e, resOut)

ListenerSettle(c, out, resOut) ==
    LET cur == calls[c]
        block == IF cur.pc \in {"wildTry", "exactTry"} THEN "Try" ELSE "Catch"
    IN /\ cur.pc \in AwaitingListener
       /\ calls' = [calls EXCEPT ![c] =
             IF out.how = "throw" THEN listenerThrow(cur, out.v, block, resOut)
             ELSE IF cur.pc \in {"wildTry", "wildCatch"}
             THEN wildReturn(cur, out.v, block, resOut)
             ELSE statusReturn(cur, out.v, resOut)]
       /\ UNCHANGED <<client, issued, localStorage, registered>>

(***************************************************************************)
(* Setters                                                                 *)
(***************************************************************************)
\* mutant: a key that has a listener keeps it
OnStatusFirstWins(status, fn) ==
    /\ statusListeners' = Spread([k \in {status} |-> fn], statusListeners)
    /\ registered' = [k \in DOMAIN registered \cup {status} |->
                         IF k = status THEN fn ELSE registered[k]]
    /\ UNCHANGED <<localStorage, headers, basePath, auth, credentials, onRequest,
                   onResponse, calls, issued>>

\* registered records, for each key, the function of the last onStatus call
OnStatus(status, fn) ==
    /\ statusListeners' = Spread(statusListeners, [k \in {status} |-> fn])
    /\ registered' = [k \in DOMAIN registered \cup {status} |->
                         IF k = status THEN fn ELSE registered[k]]
    /\ UNCHANGED <<localStorage, headers, basePath, auth, credentials, onRequest,
                   onResponse, calls, issued>>

Next ==
    \/ \E params \in RequestParams, reqOut \in InterceptorOutcomes,
          resOut \in InterceptorOutcomes : Request(params, reqOut, resOut)
    \/ \E resp \in Held, reqOut \in InterceptorOutcomes, resOut \in InterceptorOutcomes :
          Retry(resp, reqOut, resOut)
    \/ \E url \in RawUrls, o \in RawOpts : Raw(url, o)
    \/ \E c \in CallIds, out \in Responses \cup FetchErrors, resOut \in InterceptorOutcomes :
          FetchSettle(c, out, resOut)
    \/ \E c \in {d \in CallIds : calls[d].pc \in AwaitingListener},
          resOut \in InterceptorOutcomes :
          \E out \in ListenerOutcomes(calls[c]) : ListenerSettle(c, out, resOut)
    \/ \E status \in ListenerKeys, fn \in ListenerFns : OnStatus(status, fn)

Spec == Init /\ [][Next]_vars

(***************************************************************************)
(* Interceptors: calls with their own onRequest / onResponse on a client   *)
(* whose interceptors are replaced by onRequest(fn) / onResponse(fn).  The *)
(* application awaits each call before it makes the next one.              *)
(***************************************************************************)
LocalFns == {"local"}

\* the function handed to onRequest(fn) / onResponse(fn)
SetterFns == {"set"}

InterceptorParams ==
    { [NoParams EXCEPT !.method = "get", !.path = <<"/", "a">>,
                       !.onRequest = req, !.onResponse = res] :
          req \in {NoFn} \cup LocalFns, res \in {NoFn} \cup LocalFns }
    \cup { [NoParams EXCEPT !.method = "post", !.path = <<"/", "a">>, !.body = Cyclic,
                            !.onRequest = "local"] }

InterceptorResponses == {r \in Responses : r.body.t = "jsontext" /\ r.status # 500}

InterceptorListenerKeys == {"200"}

OnRequest(fn) ==
    /\ onRequest' = fn
    /\ UNCHANGED <<localStorage, registered, headers, basePath, auth, credentials,
                   onResponse, statusListeners, calls,
                   issued>>

OnResponse(fn) ==
    /\ onResponse' = fn
    /\ UNCHANGED <<localStorage, registered, headers, basePath, auth, credentials,
                   onRequest, statusListeners, calls,
                   issued>>

\* no call is in flight
AllSettled == \A c \in CallIds : calls[c].pc \in {"idle", "done"}

NextInterceptors ==
    \/ \E params \in InterceptorParams, reqOut \in InterceptorOutcomes,
          resOut \in InterceptorOutcomes : AllSettled /\ Request(params, reqOut, resOut)
    \/ \E resp \in Held, reqOut \in InterceptorOutcomes, resOut \in InterceptorOutcomes :
          AllSettled /\ Retry(resp, reqOut, resOut)
    \/ \E c \in CallIds, out \in InterceptorResponses \cup FetchErrors,
          resOut \in InterceptorOutcomes : FetchSettle(c, out, resOut)
    \/ \E c \in {d \in CallIds : calls[d].pc \in AwaitingListener},
          resOut \in InterceptorOutcomes :
          \E out \in ListenerOutcomes(calls[c]) : ListenerSettle(c, out, resOut)
    \/ \E status \in InterceptorListenerKeys, fn \in ListenerFns : OnStatus(status, fn)
    \/ \E fn \in SetterFns : OnRequest(fn)
    \/ \E fn \in SetterFns : OnResponse(fn)

SpecInterceptors == Init /\ [][NextInterceptors]_vars

(***************************************************************************)
(* retry(): one request and its retry, made by the application or inside a *)
(* status listener (as the test 'retry on status' does), on clients with   *)
(* an absolute, a relative or no base path.                                *)
(***************************************************************************)
RetryBasePaths == {<<"http://", "base">>, <<"/", "api">>, <<>>}

InitRetry ==
    /\ localStorage = LocalStorage
    /\ registered = EmptyMap
    /\ headers = DefaultHeaders
    /\ basePath \in RetryBasePaths
    /\ auth = NoAuth
    /\ credentials = Unset
    /\ onRequest = NoFn
    /\ onResponse \in {NoFn} \cup GlobalFns
    /\ statusListeners = EmptyMap
    /\ calls = [c \in CallIds |-> IdleCall]
    /\ issued = 0

\* a get with a header of its own, a post of an object, a post of a FormData
RetryRequestParams ==
    { [NoParams EXCEPT !.method = "get", !.path = <<"/", "a">>,
                       !.headers = [k \in {"x-a"} |-> "1"]],
      [NoParams EXCEPT !.method = "post", !.path = <<"/", "a">>,
                       !.body = Obj([name |-> Str("n")])],
      [NoParams EXCEPT !.method = "post", !.path = <<"/", "a">>, !.body = FormData] }

RetryResponses == {r \in Responses : r.body.t = "jsontext" /\ r.status # 500}

SetHeadersArgs == {[k \in {"x-set"} |-> "1"]}

SetHeaders(hdrs) ==
    /\ headers' = buildHeaders(hdrs)
    /\ UNCHANGED <<localStorage, registered, basePath, auth, credentials, onRequest,
                   onResponse, statusListeners,
                   calls, issued>>

\* a listener `async resp => { await f9.retry(resp) }`
RetryingFns == {"retrier"}

\* the listener awaited by call c calls retry(resp) with its argument
ListenerRetries(c, reqOut, resOut) ==
    LET cur == calls[c]
        at == <<c, Len(cur.log)>>
    IN /\ cur.pc \in AwaitingListener
       /\ cur.log[Len(cur.log)].fn \in RetryingFns
       /\ \A k \in CallIds : calls[k].by # at
       /\ issued < MaxCalls
       /\ issued' = issued + 1
       /\ calls' = [calls EXCEPT ![issued + 1] =
             [call(retryParams(ListenerArg(cur)), reqOut, resOut)
                 EXCEPT !.kind = "retry", !.by = at]]
       /\ headers' = headersAfterCall(retryParams(ListenerArg(cur)))
       /\ UNCHANGED <<readByCall, localStorage, registered>>

\* the retry the listener of call c awaits has settled: the listener
\* returns nothing, or throws what the retry was rejected with
ListenerRetryReturns(c, k, resOut) ==
    /\ calls[c].pc \in AwaitingListener
    /\ calls[k].by = <<c, Len(calls[c].log)>>
    /\ calls[k].pc = "done"
    /\ ListenerSettle(c, IF calls[k].settled = "rejected" THEN Throws(calls[k].value)
                         ELSE Returns(Undefined), resOut)

RetryListenerKeys == {Wildcard, "200"}

NextRetry ==
    \/ \E params \in RetryRequestParams, resOut \in InterceptorOutcomes :
          issued = 0 /\ Request(params, Returns(Undefined), resOut)
    \/ \E resp \in Held, resOut \in InterceptorOutcomes :
          AllSettled /\ Retry(resp, Returns(Undefined), resOut)
    \/ \E c \in CallIds, out \in RetryResponses \cup FetchErrors,
          resOut \in InterceptorOutcomes : FetchSettle(c, out, resOut)
    \/ \E c \in {d \in CallIds : calls[d].pc \in AwaitingListener},
          resOut \in InterceptorOutcomes : ListenerRetries(c, Returns(Undefined), resOut)
    \/ \E c \in {d \in CallIds : calls[d].pc \in AwaitingListener}, k \in CallIds,
          resOut \in InterceptorOutcomes : ListenerRetryReturns(c, k, resOut)
    \/ \E status \in RetryListenerKeys, fn \in RetryingFns : OnStatus(status, fn)
    \/ \E hdrs \in SetHeadersArgs : SetHeaders(hdrs)

SpecRetry == InitRetry /\ [][NextRetry]_vars

(***************************************************************************)
(* Concurrent calls: different requests in flight on one client, their     *)
(* transport requests completing in any order.                             *)
(***************************************************************************)
ConcurrentParams ==
    { [NoParams EXCEPT !.method = "get", !.path = <<"/", "a">>],
      [NoParams EXCEPT !.method = "post", !.path = <<"/", "b">>,
                       !.headers = [k \in {"x-b"} |-> "1"],
                       !.options = [mode |-> "cors", responseType |-> "text"],
                       !.body = Obj([name |-> Str("n")]), !.credentials = "include"],
      [NoParams EXCEPT !.method = "delete", !.path = <<"c">>,
                       !.headers = [k \in {"Content-Type"} |-> "text/plain"]] }

NextConcurrent ==
    \/ \E params \in ConcurrentParams :
          Request(params, Returns(Undefined), Returns(Undefined))
    \/ \E c \in CallIds, out \in Responses \cup FetchErrors :
          FetchSettle(c, out, Returns(Undefined))

SpecConcurrent == Init /\ [][NextConcurrent]_vars

(***************************************************************************)
(* Headers: calls with headers of their own and FormData bodies on a       *)
(* client whose defaults come from the auth option, setHeaders and         *)
(* setAuthorization.                                                       *)
(***************************************************************************)
HeadersAuths == {NoAuth, Auth("Bearer", "", "tok", "", "", "")}

InitHeaders ==
    /\ localStorage = LocalStorage
    /\ registered = EmptyMap
    /\ auth \in HeadersAuths
    /\ headers = buildAuth(auth)
    /\ basePath \in BasePaths
    /\ credentials = Unset
    /\ onRequest = NoFn
    /\ onResponse = NoFn
    /\ statusListeners = EmptyMap
    /\ calls = [c \in CallIds |-> IdleCall]
    /\ issued = 0

SetAuthorizationArgs == {HeaderValue("Token ", "plain", <<"set">>)}

SetAuthorization(value) ==
    /\ headers' = Spread(headers, [k \in {"Authorization"} |-> value])
    /\ UNCHANGED <<localStorage, registered, basePath, auth, credentials, onRequest,
                   onResponse, statusListeners,
                   calls, issued>>

HeadersSetArgs == {("a" :> "1") @@ ("b" :> "2")}

\* method and argument of get / post / ...
HeadersCalls ==
    { [method |-> "get", args |-> NoParams],
      [method |-> "get",
       args |-> [NoParams EXCEPT !.headers = ("b" :> "3") @@ ("c" :> "4")]],
      [method |-> "post", args |-> FormData],
      [method |-> "post",
       args |-> [NoParams EXCEPT !.body = FormData,
                                 !.headers = ("Content-Type" :> "multipart/form-data")
                                             @@ ("b" :> "3")]],
      [method |-> "post",
       args |-> [NoParams EXCEPT !.payload = [name |-> Str("n")],
                                 !.headers = ("Content-Type" :> "text/plain")
                                    @@ ("Authorization" :>
                                           HeaderValue("Token ", "plain", <<"own">>))]] }

HeadersListenerKeys == {"404"}

NextHeaders ==
    \/ \E r \in HeadersCalls :
          AllSettled /\ Verb(r.method, <<"/", "a">>, r.args, Returns(Undefined),
                             Returns(Undefined))
    \/ \E resp \in Held :
          AllSettled /\ Retry(resp, Returns(Undefined), Returns(Undefined))
    \/ \E url \in RawUrls, o \in RawOpts : AllSettled /\ Raw(url, o)
    \/ \E c \in CallIds, out \in InterceptorResponses \cup FetchErrors :
          FetchSettle(c, out, Returns(Undefined))
    \/ \E c \in {d \in CallIds : calls[d].pc \in AwaitingListener} :
          \E out \in ListenerOutcomes(calls[c]) : ListenerSettle(c, out, Returns(Undefined))
    \/ \E status \in HeadersListenerKeys, fn \in ListenerFns : OnStatus(status, fn)
    \/ \E hdrs \in HeadersSetArgs : SetHeaders(hdrs)
    \/ \E value \in SetAuthorizationArgs : SetAuthorization(value)

SpecHeaders == InitHeaders /\ [][NextHeaders]_vars

(***************************************************************************)
(* Bodies: every method with params that are a payload, that hold a body   *)
(* field, that are empty, and with a FormData.                             *)
(***************************************************************************)
Methods == {"get", "post", "put", "patch", "delete"}

BodyArgs ==
    { NoParams,
      [NoParams EXCEPT !.payload = [name |-> Str("n")]],
      [NoParams EXCEPT !.body = Obj([name |-> Str("n")])],
      [NoParams EXCEPT !.payload = [name |-> Str("n")],
                       !.headers = [k \in {"Content-Type"} |-> "text/plain"]],
      FormData }

BodyResponses == {r \in Responses : r.status = 200}

NextBody ==
    \/ \E method \in Methods, args \in BodyArgs :
          Verb(method, <<"/", "a">>, args, Returns(Undefined), Returns(Undefined))
    \/ \E resp \in Held : Retry(resp, Returns(Undefined), Returns(Undefined))
    \/ \E c \in CallIds, out \in BodyResponses \cup FetchErrors :
          FetchSettle(c, out, Returns(Undefined))

SpecBody == Init /\ [][NextBody]_vars

(***************************************************************************)
(* Options: clients built with and without credentials and base path,     *)
(* setCredentials, and calls that differ in path form, response type,     *)
(* content type and credentials.                                           *)
(***************************************************************************)
OptionsBasePaths == {<<"http://", "base">>, <<>>}

OptionsCredentials == {Unset, "include"}

InitOptions ==
    /\ localStorage = LocalStorage
    /\ registered = EmptyMap
    /\ auth = NoAuth
    /\ headers = DefaultHeaders
    /\ basePath \in OptionsBasePaths
    /\ credentials \in OptionsCredentials
    /\ onRequest = NoFn
    /\ onResponse = NoFn
    /\ statusListeners = EmptyMap
    /\ calls = [c \in CallIds |-> IdleCall]
    /\ issued = 0

SetCredentialsArgs == {"same-origin"}

SetCredentials(cred) ==
    /\ credentials' = cred
    /\ UNCHANGED <<localStorage, registered, headers, basePath, auth, onRequest,
                   onResponse, statusListeners, calls,
                   issued>>

\* method, path and argument of get / post / ...
OptionsCalls ==
    { [method |-> "get", path |-> <<"/", "a">>, args |-> NoParams],
      [method |-> "get", path |-> <<"a">>,
       args |-> [NoParams EXCEPT !.options.responseType = "text", !.credentials = "omit"]],
      [method |-> "get", path |-> <<"httpbin.org", "/", "x">>,
       args |-> [NoParams EXCEPT !.headers = ("Content-Type" :> "text/plain")]],
      [method |-> "get", path |-> <<"https://", "h", "/", "b">>,
       args |-> [NoParams EXCEPT !.options.responseType = "text"]],
      [method |-> "post", path |-> <<"/", "a">>,
       args |-> [NoParams EXCEPT !.payload = [name |-> Str("n")],
                                 !.options.responseType = "json",
                                 !.credentials = "omit"]] }

\* a JSON answer and a plain text answer
OptionsResponses ==
    { [status |-> 200, statusText |-> "OK", body |-> JsonText(Obj([ok |-> Bool(TRUE)]))],
      [status |-> 200, statusText |-> "OK", body |-> Str("textplain")] }

NextOptions ==
    \/ \E r \in OptionsCalls :
          AllSettled /\ Verb(r.method, r.path, r.args, Returns(Undefined),
                             Returns(Undefined))
    \/ \E resp \in Held :
          AllSettled /\ Retry(resp, Returns(Undefined), Returns(Undefined))
    \/ \E c \in CallIds, out \in OptionsResponses \cup FetchErrors :
          FetchSettle(c, out, Returns(Undefined))
    \/ \E cred \in SetCredentialsArgs : SetCredentials(cred)

SpecOptions == InitOptions /\ [][NextOptions]_vars

(***************************************************************************)
(* Authorization: clients built with each form of auth descriptor.        *)
(***************************************************************************)
AuthDescriptors ==
    { NoAuth,
      Auth("Bearer", "", "secret", "", "", ""),
      Auth("Bearer", "x-token", "secret", "", "", ""),
      Auth("Bearer", "", "", "k1", "", ""),
      Auth("Bearer", "x-token", "", "k1", "", ""),
      Auth("Bearer", "", "secret", "k1", "", ""),
      Auth("Bearer", "", "", "k2", "", ""),
      Auth("Bearer", "", "", "k3", "", ""),
      Auth("Bearer", "", "", "", "", ""),
      Auth("Basic", "", "", "", "user", "secret"),
      Auth("Basic", "w-token", "", "", "user", "secret"),
      Auth("Basic", "", "", "", "user", ""),
      Auth("Basic", "", "", "", "", "secret"),
      Auth("Basic", "w-token", "", "", "", "") }

InitAuth ==
    /\ localStorage = LocalStorage
    /\ registered = EmptyMap
    /\ auth \in AuthDescriptors
    /\ headers = buildAuth(auth)
    /\ basePath \in BasePaths
    /\ credentials = Unset
    /\ onRequest = NoFn
    /\ onResponse = NoFn
    /\ statusListeners = EmptyMap
    /\ calls = [c \in CallIds |-> IdleCall]
    /\ issued = 0

AuthCalls ==
    { [method |-> "get", args |-> NoParams],
      [method |-> "post", args |-> [NoParams EXCEPT !.payload = [name |-> Str("n")]]] }

NextAuth ==
    \/ \E r \in AuthCalls :
          Verb(r.method, <<"/", "auth">>, r.args, Returns(Undefined), Returns(Undefined))
    \/ \E resp \in Held : Retry(resp, Returns(Undefined), Returns(Undefined))
    \/ \E c \in CallIds, out \in BodyResponses \cup FetchErrors :
          FetchSettle(c, out, Returns(Undefined))

SpecAuth == InitAuth /\ [][NextAuth]_vars

(***************************************************************************)
(* The credential store changes after the client was built with a Bearer  *)
(* descriptor that names a key.                                            *)
(***************************************************************************)
StoreAuths ==
    { Auth("Bearer", "", "", "k1", "", ""),
      Auth("Bearer", "", "", "k2", "", ""),
      Auth("Bearer", "", "secret", "k1", "", "") }

InitStore ==
    /\ localStorage = LocalStorage
    /\ registered = EmptyMap
    /\ auth \in StoreAuths
    /\ headers = buildAuth(auth)
    /\ basePath \in BasePaths
    /\ credentials = Unset
    /\ onRequest = NoFn
    /\ onResponse = NoFn
    /\ statusListeners = EmptyMap
    /\ calls = [c \in CallIds |-> IdleCall]
    /\ issued = 0

StoreValues == {"changed", ""}

\* localStorage.setItem(key, value), done by the application
SetItem(key, value) ==
    /\ localStorage' = [localStorage EXCEPT ![key] = value]
    /\ UNCHANGED <<client, calls, issued, registered>>

StoreCalls ==
    { [method |-> "get", args |-> NoParams],
      [method |-> "get",
       args |-> [NoParams EXCEPT !.headers =
                    ("Authorization" :> HeaderValue("Token ", "plain", <<"own">>))]] }

NextStore ==
    \/ \E r \in StoreCalls :
          AllSettled /\ Verb(r.method, <<"/", "auth">>, r.args, Returns(Undefined),
                             Returns(Undefined))
    \/ \E resp \in Held :
          AllSettled /\ Retry(resp, Returns(Undefined), Returns(Undefined))
    \/ \E c \in CallIds, out \in BodyResponses \cup FetchErrors :
          FetchSettle(c, out, Returns(Undefined))
    \/ \E key \in DOMAIN LocalStorage, value \in StoreValues : SetItem(key, value)
    \/ \E value \in SetAuthorizationArgs : SetAuthorization(value)

SpecStore == InitStore /\ [][NextStore]_vars

(***************************************************************************)
(* Listeners registered again and again: two functions, the wildcard key  *)
(* and a status key.                                                       *)
(***************************************************************************)
RegisteredFns == {"f1", "f2"}

RegisteredKeys == {Wildcard, "200"}

\* a client built without interceptors
InitListeners == Init /\ onRequest = NoFn /\ onResponse = NoFn

\* the listeners return nothing or throw
RegisteredOutcomes(c) == {out \in ListenerOutcomes(c) : out.v.t \in {"undefined", "error"}}

NextListeners ==
    \/ AllSettled /\ Verb("get", <<"/", "a">>, NoParams, Returns(Undefined),
                          Returns(Undefined))
    \/ \E c \in CallIds, out \in BodyResponses \cup FetchErrors :
          FetchSettle(c, out, Returns(Undefined))
    \/ \E c \in {d \in CallIds : calls[d].pc \in AwaitingListener} :
          \E out \in RegisteredOutcomes(calls[c]) :
              ListenerSettle(c, out, Returns(Undefined))
    \/ \E status \in RegisteredKeys, fn \in RegisteredFns : OnStatus(status, fn)

SpecListeners == InitListeners /\ [][NextListeners]_vars

(***************************************************************************)
(* Content types: posts of a string and of an object under each content   *)
(* type, given under the key Content-Type or content-type.                 *)
(***************************************************************************)
ContentTypes ==
    { "application/json", "text/plain", "text/json", "multipart/form-data",
      "application/x-www-form-urlencoded", "multipart/form-data; boundary=json",
      "text/x-form", "application/octet-stream" }

ContentTypeKeys == {"Content-Type", "content-type"}

ContentTypeBodies == {Str("key=value"), Obj([name |-> Str("n")])}

ContentTypeCalls ==
    {[NoParams EXCEPT !.body = body] : body \in ContentTypeBodies}
    \cup {[NoParams EXCEPT !.body = body, !.headers = [k \in {key} |-> contentType]] :
            body \in ContentTypeBodies, key \in ContentTypeKeys,
            contentType \in ContentTypes}

NextContentType ==
    \/ \E args \in ContentTypeCalls :
          AllSettled /\ Verb("post", <<"/", "content-type">>, args, Returns(Undefined),
                             Returns(Undefined))
    \/ \E c \in CallIds, out \in BodyResponses \cup FetchErrors :
          FetchSettle(c, out, Returns(Undefined))

SpecContentType == InitListeners /\ [][NextContentType]_vars

(***************************************************************************)
(* Setters called between and during calls.                                *)
(***************************************************************************)
SettersCalls ==
    { [method |-> "get", args |-> NoParams],
      [method |-> "post",
       args |-> [NoParams EXCEPT !.payload = [name |-> Str("n")],
                                 !.headers = ("b" :> "3"),
                                 !.credentials = "omit"]] }

NextSetters ==
    \/ \E r \in SettersCalls :
          Verb(r.method, <<"/", "a">>, r.args, Returns(Undefined), Returns(Undefined))
    \/ \E c \in CallIds, out \in InterceptorResponses \cup FetchErrors :
          FetchSettle(c, out, Returns(Undefined))
    \/ \E hdrs \in HeadersSetArgs : SetHeaders(hdrs)
    \/ \E value \in SetAuthorizationArgs : SetAuthorization(value)
    \/ \E cred \in SetCredentialsArgs : SetCredentials(cred)

SpecSetters == InitListeners /\ [][NextSetters]_vars

(***************************************************************************)
(* Listeners and the response interceptor set while a call is in flight.   *)
(***************************************************************************)
\* a client built with or without a response interceptor
InitLate == Init /\ onRequest = NoFn

InFlight == ~AllSettled

NextLate ==
    \/ AllSettled /\ Verb("get", <<"/", "a">>, NoParams, Returns(Undefined),
                          Returns(Undefined))
    \/ \E c \in CallIds, out \in BodyResponses \cup FetchErrors :
          FetchSettle(c, out, Returns(Undefined))
    \/ \E c \in {d \in CallIds : calls[d].pc \in AwaitingListener} :
          \E out \in RegisteredOutcomes(calls[c]) :
              ListenerSettle(c, out, Returns(Undefined))
    \/ \E status \in RegisteredKeys, fn \in RegisteredFns : InFlight /\ OnStatus(status, fn)
    \/ \E fn \in SetterFns : InFlight /\ OnResponse(fn)

SpecLate == InitLate /\ [][NextLate]_vars

(***************************************************************************)
(* Properties                                                             *)
(***************************************************************************)
Issued == {c \in CallIds : calls[c].kind # "idle"}

Done(c) == calls[c].pc = "done"

\* the call built an envelope
Normalized(c) == calls[c].result.t = "env"

\* positions of the events ev in the log of call c
EventsOf(c, ev) == {i \in 1..Len(calls[c].log) : calls[c].log[i].ev = ev}

CallbackEvents == {"onRequest", "wild", "exact", "onResponse"}

\* no interceptor and no listener was called in call c
NoCallbackRan(c) == \A i \in 1..Len(calls[c].log) : calls[c].log[i].ev \notin CallbackEvents

\* C1: when the transport throws, the envelope the call builds has
\* success=false, status=0, data=null and the message of the thrown failure,
\* and a call whose exact-status listener substitutes nothing resolves to it
\* (get/post/..., retry and raw alike).
C1_TransportFailureEnvelope ==
    \A c \in Issued :
        (calls[c].thrown.t = "error" /\ Normalized(c)) =>
            /\ calls[c].result.success = FALSE
            /\ calls[c].result.status = 0
            /\ calls[c].result.data = Null
            /\ calls[c].result.message = calls[c].thrown.message
            /\ (calls[c].settled = "resolved" /\ calls[c].exactRet.t = "undefined")
                  => calls[c].value = calls[c].result

C1_Witness ==
    \E c \in Issued, d \in Issued :
        /\ calls[c].kind = "retry" /\ calls[d].kind = "raw"
        /\ calls[c].thrown.t = "error" /\ calls[d].thrown.t = "error"
        /\ calls[c].settled = "resolved" /\ calls[d].settled = "resolved"
        /\ calls[c].value.status = 0 /\ calls[d].value.status = 0

\* the data the claim C2 expects of an HTTP failure: the parsed JSON body
\* when the body parses, else the text, else null
C2_ExpectedData(body) ==
    IF JsonParses(body) THEN JsonParse(body)
    ELSE IF body.t = "str" /\ body.s # "" THEN body
    ELSE Null

\* C2: a response whose status indicates failure gives an envelope with
\* success=false, the response's status and message, and as data the parsed
\* JSON body whenever the body parses as JSON, otherwise the text, otherwise
\* null.
C2_HttpFailureEnvelope ==
    \A c \in Issued :
        (calls[c].response # NoResponse /\ ~Ok(calls[c].response) /\ Normalized(c)) =>
            /\ calls[c].result.success = FALSE
            /\ calls[c].result.status = calls[c].response.status
            /\ calls[c].result.message = calls[c].response.statusText
            /\ calls[c].result.data = C2_ExpectedData(calls[c].response.body)

\* C3: a successful response whose body the selected reader cannot decode
\* gives an envelope with success=true, the response's status and data=null,
\* and the call resolves to it when no callback is involved.
C3_DecodeFailureEnvelope ==
    \A c \in Issued :
        (/\ calls[c].response # NoResponse
         /\ Ok(calls[c].response)
         /\ ReaderFails(calls[c].responseType, calls[c].response.body)
         /\ Cardinality(EventsOf(c, "normalize")) = 1) =>
            /\ calls[c].result.success = TRUE
            /\ calls[c].result.status = calls[c].response.status
            /\ calls[c].result.data = Null
            /\ (Done(c) /\ NoCallbackRan(c)) =>
                  (calls[c].settled = "resolved" /\ calls[c].value = calls[c].result)

C3_Witness ==
    \E c \in Issued :
        /\ calls[c].response.status = 204
        /\ calls[c].response.body = Str("")
        /\ calls[c].responseType = "json"
        /\ calls[c].settled = "resolved"
        /\ calls[c].value.t = "env" /\ calls[c].value.success = TRUE
        /\ calls[c].value.data = Null

\* C4: with no status listener and no interceptor registered, no call
\* (get/post/..., retry, raw) rejects.
C4_NeverRejects ==
    (statusListeners = EmptyMap /\ onRequest = NoFn /\ onResponse = NoFn) =>
        \A c \in Issued :
            (calls[c].params.onRequest = NoFn /\ calls[c].params.onResponse = NoFn)
                => calls[c].settled # "rejected"

\* calls that run the pipeline #call
Pipeline == {c \in Issued : calls[c].kind \in {"call", "retry"}}

ListenerEvents(c) == EventsOf(c, "wild") \cup EventsOf(c, "exact")

\* C5: in every call through #call, on success and on failure: the request
\* interceptor runs before the transport call is issued; a status listener
\* runs only after an envelope was built, which is after the transport call;
\* the response interceptor runs after the dispatch, as the last step.
C5_PipelineOrder ==
    \A c \in Pipeline :
        LET log == calls[c].log
        IN /\ \A i \in EventsOf(c, "onRequest"), j \in EventsOf(c, "fetch") : i < j
           /\ (EventsOf(c, "fetch") # {}
               /\ (calls[c].params.onRequest # NoFn \/ onRequest # NoFn))
                 => log[1].ev = "onRequest"
           /\ \A j \in ListenerEvents(c) :
                 /\ log[j].arg.t = "env"
                 /\ \E i \in EventsOf(c, "normalize") :
                       i < j /\ \A f \in EventsOf(c, "fetch") : f < i
           /\ \A i \in EventsOf(c, "onResponse") : i = Len(log) /\ Done(c)
           /\ (Done(c) /\ Normalized(c)
               /\ (calls[c].params.onResponse # NoFn \/ onResponse # NoFn))
                 => log[Len(log)].ev = "onResponse"

\* the whole sequence of steps of a call with every callback registered
C5_FullOrder(c) ==
    /\ Len(calls[c].log) = 6
    /\ [i \in 1..6 |-> calls[c].log[i].ev]
          = <<"onRequest", "fetch", "normalize", "wild", "exact", "onResponse">>

C5_Witness ==
    \E c \in Pipeline, d \in Pipeline :
        /\ C5_FullOrder(c) /\ C5_FullOrder(d)
        /\ calls[c].result.success = TRUE
        /\ calls[d].result.success = FALSE

\* the values JavaScript treats as false
C6_Falsy(v) ==
    \/ v.t \in {"undefined", "null"}
    \/ v = Bool(FALSE)
    \/ v = Num(0)
    \/ v = Str("")

\* C6 as stated: a call resolves to the value of its exact-status listener
\* whenever that value is neither null nor undefined, and to the envelope
\* otherwise.
C6_NonNullSubstitution ==
    \A c \in Pipeline :
        calls[c].settled = "resolved" =>
            calls[c].value = IF calls[c].exactRet.t \notin {"undefined", "null"}
                             THEN calls[c].exactRet ELSE calls[c].result

\* C6 amended: a call with retry counter 0 returns the value of its
\* exact-status listener when that value is truthy; when the value is falsy
\* (undefined, null, false, 0, ''), or no listener is registered for the
\* envelope's status, it returns the normalized envelope; on both paths.
C6_TruthySubstitution ==
    \A c \in Pipeline :
        calls[c].settled = "resolved" =>
            calls[c].value = IF ~C6_Falsy(calls[c].exactRet)
                             THEN calls[c].exactRet ELSE calls[c].result

C6_Witness ==
    \E c \in Pipeline, d \in Pipeline :
        /\ calls[c].settled = "resolved" /\ calls[d].settled = "resolved"
        /\ calls[c].result.success = TRUE /\ calls[d].result.success = FALSE
        /\ calls[c].value.mark = "subst" /\ calls[c].value # calls[c].result
        /\ calls[d].exactRet = Bool(FALSE) /\ calls[d].value = calls[d].result
        /\ EventsOf(d, "exact") # {}

\* C7: in a dispatch the wildcard listener is called before the exact-status
\* listener, with the same envelope, and what the wildcard listener returns
\* never becomes the value of the call.
C7_WildcardFirst ==
    \A c \in Pipeline :
        LET log == calls[c].log
        IN /\ \A i \in EventsOf(c, "exact"), j \in EventsOf(c, "wild") :
                 i < j => \E k \in EventsOf(c, "normalize") : i < k /\ k < j
           /\ \A i \in EventsOf(c, "wild") :
                 (i < Len(log) /\ log[i + 1].ev = "exact") => log[i + 1].arg = log[i].arg
           /\ (calls[c].settled = "resolved" /\ C6_Falsy(calls[c].exactRet))
                 => calls[c].value = calls[c].result

C7_Witness ==
    \E c \in Pipeline :
        /\ calls[c].settled = "resolved"
        /\ \E i \in EventsOf(c, "wild") :
              i < Len(calls[c].log) /\ calls[c].log[i + 1].ev = "exact"
        /\ calls[c].wildRet.t = "env" /\ calls[c].wildRet.mark = "subst"
        /\ calls[c].exactRet.t = "undefined"
        /\ calls[c].value = calls[c].result

\* C8: a call made by retry() calls no status listener, whatever status it
\* gets, and still calls the client's request and response interceptors.
C8_RetrySkipsListeners ==
    \A c \in Issued :
        calls[c].kind = "retry" =>
            /\ calls[c].params.retryCount # 0
            /\ ListenerEvents(c) = {}
            /\ onRequest # NoFn => calls[c].log[1].ev = "onRequest"
            /\ (Done(c) /\ onResponse # NoFn)
                  => calls[c].log[Len(calls[c].log)].ev = "onResponse"

C8_Witness ==
    \E c \in Issued :
        /\ calls[c].kind = "retry" /\ Done(c)
        /\ KeyOf(calls[c].result.status) \in DOMAIN statusListeners
        /\ Wildcard \in DOMAIN statusListeners
        /\ [i \in 1..Len(calls[c].log) |-> calls[c].log[i].ev]
              = <<"onRequest", "fetch", "normalize", "onResponse">>

\* C9: within one call with retry counter 0 the exact-status listener is
\* called at most once and the wildcard listener at most once, whatever the
\* transport and the listeners do.
C9_ListenersAtMostOnce ==
    \A c \in Pipeline :
        calls[c].params.retryCount = 0 =>
            /\ Cardinality(EventsOf(c, "wild")) <= 1
            /\ Cardinality(EventsOf(c, "exact")) <= 1

\* C10: when a call with retry counter 0 builds its envelope while a
\* wildcard listener is registered, that listener is called with the
\* envelope at once, whatever the status (success, HTTP error, or 0).
C10_WildcardStep ==
    \A c \in CallIds :
        (/\ calls'[c].kind = "call"
         /\ calls'[c].params.retryCount = 0
         /\ Wildcard \in DOMAIN statusListeners
         /\ Cardinality({i \in 1..Len(calls'[c].log) : calls'[c].log[i].ev = "normalize"})
               > Cardinality(EventsOf(c, "normalize"))) =>
            LET last == calls'[c].log[Len(calls'[c].log)]
            IN /\ last.ev = "wild"
               /\ last.arg = calls'[c].result
               /\ calls'[c].pc \in AwaitingListener

\* C10, as a property of every step: C10_WildcardStep holds of each step
C10_WildcardAlways == [][C10_WildcardStep]_vars

C10_Witness ==
    \E c \in Pipeline, d \in Pipeline :
        /\ \E i \in EventsOf(c, "wild") : calls[c].log[i].arg.status = 0
        /\ \E i \in EventsOf(d, "wild") : calls[d].log[i].arg.status = 204

\* the request interceptor events in the log of a frame
C11_Calls(frame) == {i \in 1..Len(frame.log) : frame.log[i].ev = "onRequest"}

\* C11, of one step: a call that is made calls exactly one request
\* interceptor exactly once when one is configured, its own onRequest if it
\* has one, else the client's (from the constructor or onRequest(fn)), and
\* none otherwise; nothing calls a request interceptor later in the call.
C11_Step ==
    \A c \in CallIds :
        /\ (calls[c].kind = "idle" /\ calls'[c].kind \in {"call", "retry"}) =>
              LET fn == IF calls'[c].params.onRequest # NoFn
                        THEN calls'[c].params.onRequest ELSE onRequest
              IN IF fn = NoFn THEN C11_Calls(calls'[c]) = {}
                 ELSE /\ Cardinality(C11_Calls(calls'[c])) = 1
                      /\ \A i \in C11_Calls(calls'[c]) : calls'[c].log[i].fn = fn
        /\ calls[c].kind # "idle" => C11_Calls(calls'[c]) = C11_Calls(calls[c])

\* C11: every call invokes exactly one request interceptor exactly once when
\* one is configured: the per-call onRequest if supplied, else the
\* client-level one; the client-level one never runs on a call with its own,
\* and a per-call interceptor has no effect on later calls.
C11_OneRequestInterceptor == [][C11_Step]_vars

\* the response interceptor events in the log of a frame
C12_Calls(frame) == {i \in 1..Len(frame.log) : frame.log[i].ev = "onResponse"}

\* C12, of one step: when a call ends with an envelope built (success, HTTP
\* failure or transport failure), exactly one response interceptor was
\* called, once, as the call ends: its own onResponse if it has one, else
\* the client's; none when none is configured.
C12_Step ==
    \A c \in CallIds :
        /\ (calls'[c].kind \in {"call", "retry"} /\ calls'[c].pc # "done")
              => C12_Calls(calls'[c]) = {}
        /\ (/\ calls[c].pc # "done" /\ calls'[c].pc = "done"
            /\ calls'[c].kind \in {"call", "retry"}
            /\ calls'[c].result.t = "env") =>
              LET fn == IF calls'[c].params.onResponse # NoFn
                        THEN calls'[c].params.onResponse ELSE onResponse
              IN IF fn = NoFn THEN C12_Calls(calls'[c]) = {}
                 ELSE /\ Cardinality(C12_Calls(calls'[c])) = 1
                      /\ \A i \in C12_Calls(calls'[c]) : calls'[c].log[i].fn = fn
        /\ calls[c].pc = "done" => calls'[c] = calls[c]

\* C12: on every outcome of a call (success, HTTP failure, transport
\* failure) exactly one response interceptor is invoked exactly once when
\* one is configured: the per-call onResponse if supplied, else the
\* client-level one, which never runs on a call that supplies its own.
C12_OneResponseInterceptor == [][C12_Step]_vars

C12_Witness ==
    \E c \in CallIds, d \in CallIds :
        /\ calls[c].pc = "done" /\ calls[d].pc = "done"
        /\ calls[c].params.onResponse = "local" /\ onResponse = "set"
        /\ calls[c].result.t = "env" /\ calls[c].result.status = 0
        /\ calls[c].thrown.t = "error"
        /\ [i \in 1..Len(calls[c].log) |-> calls[c].log[i].fn]
              = <<"none", "none", "local">>
        /\ calls[d].params.onResponse = NoFn
        /\ calls[d].result.t = "env" /\ calls[d].result.success = TRUE
        /\ \E i \in C12_Calls(calls[d]) : calls[d].log[i].fn = "set"

\* C13: the response interceptor receives the final envelope, the value the
\* call resolves to: when an exact-status listener substituted the envelope,
\* the interceptor receives the substituted value.
C13_InterceptorGetsFinal ==
    \A c \in Pipeline :
        calls[c].settled = "resolved" =>
            \A i \in EventsOf(c, "onResponse") : calls[c].log[i].arg = calls[c].value

\* an envelope was built at step i of call c from what a callback threw
C14_Caught(c, i) ==
    /\ i > 1
    /\ calls[c].log[i].ev = "normalize"
    /\ calls[c].log[i - 1].ev \in {"onRequest", "wild", "exact"}

\* C14: an exception of a status listener or of an interceptor is never
\* caught by the pipeline: no envelope is built from it, on the success path
\* and on the failure path alike, the call is rejected with it, and no
\* listener is called a second time because of it.
C14_ExceptionsPropagate ==
    \A c \in Pipeline :
        /\ \A i \in 1..Len(calls[c].log) : ~C14_Caught(c, i)
        /\ Cardinality(EventsOf(c, "wild")) <= 1
        /\ Cardinality(EventsOf(c, "exact")) <= 1

\* C15: the metadata of every envelope records the retry counter of the
\* request that produced it: 0 for a direct call, and for retry(e) the
\* counter e.metadata.retryCount + 1, so that chained retries give 1, 2, 3.
C15_RetryCountRecorded ==
    \A c \in Pipeline :
        Normalized(c) =>
            calls[c].result.metadata.retryCount = calls[c].params.retryCount

\* the calls made by retry() that issued a transport request
Retries == {c \in Issued : calls[c].kind = "retry" /\ EventsOf(c, "fetch") # {}}

\* the calls made before call c that built an envelope
Before(c) == {d \in Issued : d < c /\ Normalized(d)}

\* C16: retry(envelope) issues its transport request to exactly the URL
\* recorded in envelope.metadata.url, which is not joined to the base path
\* again, whatever the base path (absolute or relative).
C16_RetryUrl ==
    \A c \in Retries : \A d \in Before(c) :
        calls[c].sent.url = calls[d].result.metadata.url

C18_RetryBody ==
    \A c \in Retries : \A d \in Before(c) :
        calls[c].sent.opts.body = calls[d].result.metadata.opts.body

\* the steps of call c at which a listener that retries was called
C19_Listened(c, ev) == {i \in EventsOf(c, ev) : calls[c].log[i].fn \in RetryingFns}

\* the transport requests of call c and of the retries made by its listeners
C19_Fetches(c) ==
    Cardinality(EventsOf(c, "fetch"))
    + Cardinality({k \in Issued : calls[k].by # <<>> /\ calls[k].by[1] = c
                                  /\ EventsOf(k, "fetch") # {}})

\* C19: a status listener that calls retry(envelope) on the envelope it is
\* given is not called again: it is called exactly once in the top-level
\* call, and when that call has ended the transport was invoked exactly
\* twice, also when the retried request gets the same status.
C19_ListenerRetriesOnce ==
    \A c \in Pipeline :
        calls[c].params.retryCount = 0 =>
            /\ Cardinality(C19_Listened(c, "wild")) <= 1
            /\ Cardinality(C19_Listened(c, "exact")) <= 1
            /\ (Done(c) /\ Cardinality(C19_Listened(c, "wild") \cup C19_Listened(c, "exact")) = 1)
                  => C19_Fetches(c) = 2

\* C20: with several calls in flight on one client, in whatever order
\* their transport requests complete, every call resolves to an envelope
\* whose url, method, request options, response type and status are those
\* of its own request and of the response to it; no call gets the envelope
\* or the metadata of another.
C20_OwnEnvelope ==
    \A c \in Pipeline :
        Done(c) =>
            /\ calls[c].settled = "resolved"
            /\ calls[c].value.t = "env"
            /\ calls[c].value.metadata.url = calls[c].sent.url
            /\ calls[c].value.metadata.url = basePath \o
                  (IF StartsWithSlash(calls[c].params.path) THEN <<>> ELSE <<"/">>)
                  \o calls[c].params.path
            /\ calls[c].value.metadata.opts = calls[c].sent.opts
            /\ calls[c].value.metadata.method = calls[c].params.method
            /\ calls[c].value.metadata.responseType =
                  (IF calls[c].params.options.responseType # Unset
                   THEN calls[c].params.options.responseType ELSE "json")
            /\ calls[c].value.status =
                  (IF calls[c].thrown.t = "error" THEN 0 ELSE calls[c].response.status)
            /\ calls[c].value.metadata.status = calls[c].value.status

\* the call made second has resolved, with its own request and the response
\* to it, while the call made first, a different request, is still in flight
C20_Witness ==
    /\ calls[1].pc = "fetch" /\ calls[2].settled = "resolved"
    /\ calls[1].sent.url # calls[2].sent.url
    /\ calls[1].params.method = "post" /\ calls[2].params.method = "get"
    /\ calls[2].value.metadata.url = calls[2].sent.url
    /\ calls[2].value.metadata.method = "get"
    /\ calls[2].value.status = 404

\* C21, of one step: a step of a call (get/post/..., retry or raw, at its
\* start or at any later point up to its end) leaves every field of the
\* client as it was, and leaves the caller's headers object as it was given.
C21_Step ==
    calls' # calls =>
        /\ client' = client
        /\ \A c \in CallIds : calls'[c].callerHeaders = calls'[c].params.headers

\* C21: a call only reads the client's shared state: default headers, auth
\* header, credentials, interceptors and listener table are unchanged by it,
\* whatever its outcome, and the caller's per-call headers are not modified.
C21_CallsOnlyRead == [][C21_Step]_vars

C21_Witness ==
    \E c \in Issued, d \in Issued :
        /\ calls[c].kind = "call" /\ Done(c)
        /\ calls[c].params.body = FormData
        /\ "Content-Type" \in DOMAIN calls[c].callerHeaders
        /\ "Content-Type" \notin DOMAIN calls[c].sent.opts.headers
        /\ calls[d].kind = "retry" /\ Done(d) /\ calls[d].result.success = FALSE
        /\ headers["Content-Type"] = "application/json"
        /\ "a" \in DOMAIN headers /\ "Authorization" \in DOMAIN headers
        /\ statusListeners # EmptyMap

\* the headers #call sends for client defaults d and per-call headers h
C22_Merged(d, h, body) ==
    LET m == [k \in (DOMAIN d) \cup (DOMAIN h) |-> IF k \in DOMAIN h THEN h[k] ELSE d[k]]
    IN IF body = FormData THEN [k \in (DOMAIN m) \ {"Content-Type"} |-> m[k]] ELSE m

\* C22, of one step: the client defaults start as the initial defaults plus
\* the auth header and every setHeaders / setAuthorization merges its
\* argument into them, the argument winning; the headers a call sends are
\* the defaults merged with the per-call headers, the per-call value winning
\* and the keys of one side only kept (for a FormData body the Content-Type
\* is then removed, C24).
C22_Step ==
    /\ headers' # headers =>
          \E arg \in HeadersSetArgs \cup
                     {[k \in {"Authorization"} |-> v] : v \in SetAuthorizationArgs} :
              headers' = C22_Merged(headers, arg, Undefined)
    /\ \A c \in CallIds :
          (calls[c].kind = "idle" /\ calls'[c].kind \in {"call", "retry"}) =>
              calls'[c].sent.opts.headers =
                  C22_Merged(headers, calls'[c].params.headers, calls'[c].params.body)

\* C22: the headers sent on a call are the right-biased shallow merge of
\* the client defaults (initial defaults, auth header, then each setHeaders
\* and setAuthorization in call order) with the per-call headers.
C22_HeaderMerge == [][C22_Step]_vars

C22_Witness ==
    \E c \in {d \in Pipeline : EventsOf(d, "fetch") # {}} :
        /\ auth.type = "Bearer"
        /\ calls[c].params.headers = ("b" :> "3") @@ ("c" :> "4")
        /\ DOMAIN calls[c].sent.opts.headers = {"Content-Type", "Authorization", "a", "b", "c"}
        /\ calls[c].sent.opts.headers["a"] = "1"
        /\ calls[c].sent.opts.headers["b"] = "3"
        /\ calls[c].sent.opts.headers["c"] = "4"
        /\ calls[c].sent.opts.headers["Authorization"] = HeaderValue("Token ", "plain", <<"set">>)

\* the calls through #call that issued a transport request
Sent == {c \in Pipeline : EventsOf(c, "fetch") # {}}

\* C24: a call with a body-carrying method whose body is a FormData (given
\* as the body field or in place of the params) sends that value unchanged
\* and sends no Content-Type header, while the client's default Content-Type
\* stays and is sent by the calls made later.
C24_FormData ==
    \A c \in Sent :
        /\ (calls[c].params.body = FormData /\ calls[c].params.method \in BodyMethods) =>
              /\ calls[c].sent.opts.body = FormData
              /\ "Content-Type" \notin DOMAIN calls[c].sent.opts.headers
              /\ "Content-Type" \in DOMAIN headers
        /\ calls[c].params.body # FormData =>
              "Content-Type" \in DOMAIN calls[c].sent.opts.headers

C24_Witness ==
    \E c \in Sent, d \in Sent :
        /\ c < d /\ Normalized(d)
        /\ calls[c].kind = "call" /\ calls[c].params.body = FormData
        /\ calls[c].params.headers = EmptyMap
        /\ calls[c].sent.opts.body = FormData
        /\ "Content-Type" \notin DOMAIN calls[c].sent.opts.headers
        /\ calls[d].kind = "call" /\ calls[d].params.body # FormData
        /\ calls[d].sent.opts.headers["Content-Type"] = "application/json"
        /\ calls[d].result.success = TRUE

\* the calls whose body #buildBody serializes: a body-carrying method and a
\* JSON content type (a FormData body leaves no content type on the request)
C23_Json ==
    {c \in Sent : /\ calls[c].params.method \in BodyMethods
                  /\ "Content-Type" \in DOMAIN calls[c].sent.opts.headers
                  /\ calls[c].sent.opts.headers["Content-Type"] = "application/json"}

\* C23: a body-carrying call with JSON content type sends the serialization
\* of the body field when the params have one, and otherwise the
\* serialization of the params without the internal fields (headers,
\* options, method, path, retry counter), so that the server parses exactly
\* the payload the caller gave.
C23_JsonBody ==
    \A c \in C23_Json :
        calls[c].sent.opts.body =
            JsonText(IF calls[c].params.body # Undefined THEN calls[c].params.body
                     ELSE Obj(calls[c].params.payload))

\* C25: the request carries a body if and only if the method is post, put,
\* patch or delete; a get carries none, whatever its params.
C25_BodyIffMethod ==
    \A c \in Sent :
        (calls[c].sent.opts.body # Undefined) <=> (calls[c].params.method \in BodyMethods)

C25_Witness ==
    \E c \in Sent, d \in Sent :
        /\ calls[c].params.method = "get" /\ calls[c].params.payload # EmptyMap
        /\ calls[c].sent.opts.body = Undefined
        /\ calls[d].params.method = "delete" /\ calls[d].params = [NoParams EXCEPT
              !.method = "delete", !.path = <<"/", "a">>]
        /\ calls[d].sent.opts.body.t = "jsontext"

\* the calls that got a successful response
C26_Read ==
    {c \in Pipeline : calls[c].settled = "resolved" /\ Ok(calls[c].response)}

C27_Sends(c) ==
    /\ calls[c].pc = "idle"
    /\ calls'[c].kind \in {"call", "retry"}
    /\ calls'[c].sent # Undefined

C27_Step ==
    \A c \in CallIds :
        C27_Sends(c) =>
            /\ calls'[c].sent.opts.credentials =
                  IF calls'[c].params.credentials # Unset THEN calls'[c].params.credentials
                  ELSE credentials
            /\ credentials' = credentials

\* C27: the request carries the credentials mode given with the call, else
\* the client's (from the constructor or the last setCredentials), else
\* none; a call leaves the client's mode as it was.
C27_Credentials == [][C27_Step]_vars

C27_Witness ==
    \E c \in Sent, d \in Sent :
        /\ c < d
        /\ credentials = "same-origin"
        /\ calls[c].params.credentials = "omit" /\ calls[c].sent.opts.credentials = "omit"
        /\ calls[d].params.credentials = Unset
        /\ calls[d].sent.opts.credentials = "same-origin"

\* C28: the request URL is the path itself when the path begins with http,
\* the base path followed by the path when it begins with a slash, and the
\* base path, a slash and the path otherwise.
C28_Url ==
    \A c \in Sent :
        LET path == calls[c].params.path
            first == IF path = <<>> THEN "" ELSE path[1]
        IN calls[c].sent.url =
              CASE first \in {"http://", "https://", "httpbin.org"} -> path
                [] first = "/" -> basePath \o path
                [] OTHER -> basePath \o <<"/">> \o path

C28_Witness ==
    \E c \in Sent, d \in Sent :
        /\ basePath = <<"http://", "base">>
        /\ calls[c].sent.url = <<"httpbin.org", "/", "x">>
        /\ calls[d].sent.url = <<"http://", "base", "/", "a">>
        /\ calls[d].params.path = <<"a">>

\* the header maps to look at: the client's defaults and every request sent
C29_HeaderMaps == {headers} \cup {calls[c].sent.opts.headers : c \in Sent}

\* the header key an auth descriptor names
C29_Key == IF auth.header # "" THEN auth.header ELSE "Authorization"

\* the token of a Bearer descriptor: its own, else the stored one for its key
C29_Token ==
    IF auth.token # "" THEN auth.token
    ELSE IF auth.key \in DOMAIN LocalStorage THEN LocalStorage[auth.key]
    ELSE ""

\* C29: a client built with Bearer auth has, beside the default content
\* type, exactly one header, under the descriptor's header key or
\* Authorization, with the value 'Bearer ' + token, the token being the
\* descriptor's own when non-empty and else the stored one for its key; when
\* no token is found there is no auth header, on the client and on every
\* request.
C29_Bearer ==
    auth.type = "Bearer" =>
        \A h \in C29_HeaderMaps :
            IF C29_Token # ""
            THEN /\ DOMAIN h = {"Content-Type", C29_Key}
                 /\ h[C29_Key] = [scheme |-> "Bearer ", enc |-> "plain", text |-> <<C29_Token>>]
            ELSE DOMAIN h = {"Content-Type"}

\* a request with a stored token under a custom key
C29_Witness ==
    /\ auth = Auth("Bearer", "x-token", "", "k1", "", "")
    /\ \E c \in Sent :
          calls[c].sent.opts.headers["x-token"] =
              [scheme |-> "Bearer ", enc |-> "plain", text |-> <<"stored">>]

\* C30: a client built with Basic auth has exactly one auth header, under
\* the descriptor's header key or Authorization, with the value 'Basic ' +
\* base64(login:password), when login and password are both non-empty, and
\* no auth header otherwise; the client is built either way.
C30_Basic ==
    auth.type = "Basic" =>
        \A h \in C29_HeaderMaps :
            IF auth.login # "" /\ auth.password # ""
            THEN /\ DOMAIN h = {"Content-Type", C29_Key}
                 /\ h[C29_Key] = [scheme |-> "Basic ", enc |-> "base64",
                                  text |-> <<auth.login, ":", auth.password>>]
            ELSE DOMAIN h = {"Content-Type"}

\* a request of a client built with a login and no password
C30_Witness ==
    /\ auth = Auth("Basic", "", "", "", "user", "")
    /\ \E c \in Sent : DOMAIN calls[c].sent.opts.headers = {"Content-Type"}
    /\ \E c \in Sent : Done(c) /\ calls[c].settled = "resolved"

\* the headers of a client just built from a Bearer descriptor, by the
\* store as it was then
C31_Built ==
    IF C29_Token = "" THEN [k \in {"Content-Type"} |-> "application/json"]
    ELSE [k \in {"Content-Type", C29_Key} |->
             IF k = "Content-Type" THEN "application/json"
             ELSE [scheme |-> "Bearer ", enc |-> "plain", text |-> <<C29_Token>>]]

\* a step changes the client's headers only as setAuthorization does, and a
\* call issued in it sends the client's headers under its own
C31_Step ==
    /\ headers' # headers =>
          /\ calls' = calls
          /\ \E value \in SetAuthorizationArgs :
                headers' = [k \in DOMAIN headers \cup {"Authorization"} |->
                               IF k = "Authorization" THEN value ELSE headers[k]]
    /\ \A c \in CallIds :
          (calls[c].pc = "idle" /\ calls'[c].pc = "fetch") =>
              \A k \in DOMAIN headers \ DOMAIN calls'[c].params.headers :
                  /\ k \in DOMAIN calls'[c].sent.opts.headers
                  /\ calls'[c].sent.opts.headers[k] = headers[k]

\* C31: the auth header is derived once, when the client is built; later
\* calls send that value whatever the credential store holds by then, and
\* it changes only by a setter or under a header given with the call.
C31_DerivedOnce == (headers = C31_Built) /\ [][C31_Step]_vars

\* a call sent the token stored when the client was built although the
\* store holds another one since before the call
C31_Witness ==
    \E c \in Sent :
        /\ auth = Auth("Bearer", "", "", "k1", "", "")
        /\ localStorage["k1"] = "changed"
        /\ calls[c].sent.opts.headers["Authorization"] =
              [scheme |-> "Bearer ", enc |-> "plain", text |-> <<"stored">>]
        /\ calls[c].pc = "fetch"

\* the calls made with raw
C32_Raw == {c \in Issued : calls[c].kind = "raw"}

\* C32: raw hands the url and the options it was given to the transport as
\* they are, calls no interceptor and no status listener, and resolves to an
\* envelope whose metadata names that url and those options.
C32_RawVerbatim ==
    \A c \in C32_Raw :
        /\ calls[c].sent # Undefined
        /\ calls[c].sent.url = calls[c].url
        /\ calls[c].sent.opts.given => calls[c].sent.opts.opts = calls[c].opts
        /\ NoCallbackRan(c)
        /\ Done(c) =>
              /\ calls[c].settled = "resolved"
              /\ Normalized(c)
              /\ calls[c].value.metadata.url = calls[c].url
              /\ calls[c].value.metadata.opts = calls[c].opts

\* the listener events a step adds to the log of call c
C33_Called(c) ==
    {i \in (Len(calls[c].log) + 1)..Len(calls'[c].log) :
        calls'[c].log[i].ev \in {"wild", "exact"}}

\* the table holds, key by key, the function registered last, and a listener
\* called in a step is the one registered last for the wildcard key or for
\* the key of the envelope's status
C33_Step ==
    /\ statusListeners' = registered'
    /\ \A c \in Pipeline :
          \A i \in C33_Called(c) :
              LET key == IF calls'[c].log[i].ev = "wild" THEN "*"
                         ELSE KeyOf(calls'[c].log[i].arg.status)
              IN /\ key \in DOMAIN registered
                 /\ calls'[c].log[i].fn = registered[key]

\* C33: the listener table is empty when the client is built and holds one
\* listener per key, the one registered last: a dispatch calls that one only.
C33_LastRegistrationWins == (statusListeners = EmptyMap) /\ [][C33_Step]_vars

\* a call that got 200 called f1, and a later call that got 200 called f2,
\* registered for 200 in between, and only f2
C33_Witness ==
    \E c \in Pipeline, d \in Pipeline :
        /\ c < d
        /\ \E i \in EventsOf(c, "exact") :
              calls[c].log[i].fn = "f1" /\ calls[c].log[i].arg.status = 200
        /\ ListenerEvents(d) # {}
        /\ \A i \in ListenerEvents(d) :
              calls[d].log[i].fn = "f2" /\ calls[d].log[i].arg.status = 200

\* the request type of a content type, by the substrings it holds
C34_TypeOf(contentType) ==
    CASE contentType \in {"text/plain", "text/json", "text/x-form"} -> "text"
      [] contentType \in {"multipart/form-data", "application/x-www-form-urlencoded",
                          "multipart/form-data; boundary=json"} -> "formData"
      [] contentType = "application/json" -> "json"
      [] OTHER -> "arrayBuffer"

\* C34: the request type of a call follows the Content-Type value of the
\* merged headers by the first rule that matches: text, then form (formData),
\* then json, else arrayBuffer.
C34_RequestType ==
    \A c \in Sent :
        calls[c].requestType = C34_TypeOf(calls[c].sent.opts.headers["Content-Type"])

C34_Witness ==
    \E c \in Sent, d \in Sent :
        /\ calls[c].sent.opts.headers["Content-Type"] = "text/json"
        /\ calls[c].requestType = "text"
        /\ calls[d].sent.opts.headers["Content-Type"] = "multipart/form-data; boundary=json"
        /\ calls[d].requestType = "formData"

\* the content type the caller gave with the call, under either key, or the
\* client's default
C35_Given(c) ==
    LET given == calls[c].params.headers
    IN IF "content-type" \in DOMAIN given THEN given["content-type"]
       ELSE IF "Content-Type" \in DOMAIN given THEN given["Content-Type"]
       ELSE headers["Content-Type"]

\* C35: a content type given with the call under the key content-type sets
\* the request type, and with it the encoding of the body, as the same value
\* under Content-Type does.
C35_EitherCase ==
    \A c \in Sent :
        /\ calls[c].requestType = C34_TypeOf(C35_Given(c))
        /\ calls[c].sent.opts.body =
              IF C34_TypeOf(C35_Given(c)) = "json" THEN JsonText(calls[c].params.body)
              ELSE calls[c].params.body

\* C36: the body of a call (not a FormData) is sent as a JSON string exactly
\* when the request type is json; under any other request type the body
\* value is sent as it is, and the request options in the metadata hold the
\* same value.
C36_JsonOnly ==
    \A c \in Sent :
        /\ calls[c].sent.opts.body =
              IF calls[c].requestType = "json" THEN JsonText(calls[c].params.body)
              ELSE calls[c].params.body
        /\ (Done(c) /\ calls[c].settled = "resolved")
              => calls[c].value.metadata.opts.body = calls[c].sent.opts.body

C36_Witness ==
    \E c \in Sent, d \in Sent :
        /\ Done(c) /\ calls[c].settled = "resolved"
        /\ calls[c].requestType = "formData"
        /\ calls[c].value.metadata.opts.body = Str("key=value")
        /\ calls[d].requestType = "json"
        /\ calls[d].sent.opts.body = JsonText(Str("key=value"))

\* C37: in every envelope a call or raw builds, on success, on an HTTP
\* failure and on a transport failure, the status and the message of the
\* metadata are the status and the message of the envelope.
C37_MetadataAgrees ==
    \A c \in Issued :
        Normalized(c) =>
            /\ calls[c].result.metadata.status = calls[c].result.status
            /\ calls[c].result.metadata.message = calls[c].result.message

\* a call issued in this step sends the client's headers and credentials of
\* this moment under its own; a call issued before keeps the request it
\* sent, and the envelope it builds records the options of that request
C38_Step ==
    \A c \in CallIds :
        /\ (calls[c].pc = "idle" /\ calls'[c].pc = "fetch") =>
              LET given == calls'[c].params
              IN /\ calls'[c].sent.opts.headers =
                       [k \in DOMAIN headers \cup DOMAIN given.headers |->
                           IF k \in DOMAIN given.headers THEN given.headers[k]
                           ELSE headers[k]]
                 /\ calls'[c].sent.opts.credentials =
                       IF given.credentials # Unset THEN given.credentials ELSE credentials
        /\ calls[c].pc = "fetch" =>
              /\ calls'[c].sent = calls[c].sent
              /\ calls'[c].result.t = "env" =>
                    calls'[c].result.metadata.opts = calls[c].sent.opts

\* C38: the headers and credentials of a call are those of the moment it is
\* issued: a setHeaders, setAuthorization or setCredentials made while the
\* call waits for the transport changes neither the request sent nor the
\* request options in its metadata, and shows in the calls issued after it.
C38_FixedWhenIssued == [][C38_Step]_vars

\* a call still waiting for the transport and a call issued after it, with
\* the setters called between the two
C38_Witness ==
    \E c \in Sent, d \in Sent :
        /\ c < d
        /\ calls[c].pc = "fetch" /\ Done(d) /\ Normalized(d)
        /\ "a" \notin DOMAIN calls[c].sent.opts.headers
        /\ "Authorization" \notin DOMAIN calls[c].sent.opts.headers
        /\ calls[c].sent.opts.credentials = Unset
        /\ "a" \in DOMAIN calls[d].result.metadata.opts.headers
        /\ "Authorization" \in DOMAIN calls[d].result.metadata.opts.headers
        /\ calls[d].result.metadata.opts.credentials = "same-origin"

\* the events a step adds to the log of call c
C39_Added(c) == (Len(calls[c].log) + 1)..Len(calls'[c].log)

\* what a step calls for a call in flight (one without a response
\* interceptor of its own) is what the table and the client hold in this
\* step, and a call that ends calls the client's response interceptor if
\* the client has one now
C39_Step ==
    \A c \in CallIds :
        calls[c].pc \notin {"idle", "done"} =>
            /\ \A i \in C39_Added(c) :
                  LET e == calls'[c].log[i]
                  IN /\ e.ev = "wild" =>
                           Wildcard \in DOMAIN statusListeners /\ e.fn = statusListeners[Wildcard]
                     /\ e.ev = "exact" =>
                           /\ KeyOf(e.arg.status) \in DOMAIN statusListeners
                           /\ e.fn = statusListeners[KeyOf(e.arg.status)]
                     /\ e.ev = "onResponse" => e.fn = onResponse
            /\ (calls'[c].pc = "done" /\ onResponse # NoFn) =>
                  /\ C39_Added(c) # {}
                  /\ calls'[c].log[Len(calls'[c].log)].ev = "onResponse"

\* C39: the status listeners and the client's response interceptor are read
\* when the result of the transport is there, not when the call is issued:
\* one set or replaced by onStatus or onResponse while the call is in flight
\* is the one called for it.
C39_LateLookup == [][C39_Step]_vars

\* the first call, issued with an empty table, has called a listener and the
\* interceptor set by onResponse, both set while it was in flight
C39_Witness ==
    /\ Done(1)
    /\ \E i \in EventsOf(1, "exact") : calls[1].log[i].fn = "f2"
    /\ \E i \in EventsOf(1, "wild") : calls[1].log[i].fn = "f1"
    /\ \E i \in EventsOf(1, "onResponse") : calls[1].log[i].fn = "set"

\* C40: a retry reads the response with the response type of the original
\* call and sends its mode and, where the original call had credentials of
\* its own, those credentials.
C40_RetryKeepsOptions ==
    \A c \in Retries : \A d \in Before(c) :
        /\ calls[c].responseType = calls[d].responseType
        /\ calls[c].sent.opts.mode = calls[d].sent.opts.mode
        /\ calls[d].params.credentials # Unset =>
              calls[c].sent.opts.credentials = calls[d].sent.opts.credentials

====
